---- MODULE Spec2Model ----
(***************************************************************************)
(* CredentialMate: the append-only audit store (audit_logs, change_events, *)
(* keystroke_logs under the Alembic migration chain and the database reset *)
(* scripts) and the JSONL issue log (IssueAppender and the two scripts     *)
(* that write to auto_issues_log.jsonl).                                   *)
(***************************************************************************)
EXTENDS Integers, Sequences, FiniteSets, TLC

VARIABLES
    revision,       \* alembic_version: index into Chain, 0 when there is none
    tables,         \* the audited tables that exist
    triggers,       \* the tables that carry a prevent_*_update trigger
    unique_index,   \* ix_change_events_aggregate exists
    hipaa,          \* audit_logs has the columns of f855a1bf370b
    rows,           \* table name -> set of rows
    db_result,      \* the last database operation and how it ended
    dir_exists,     \* the issue log's parent directory exists
    log_exists,     \* auto_issues_log.jsonl exists
    log_content,    \* its content, in file order
    log_result,     \* the last issue-log operation and how it ended
    calls,          \* the concurrent append_issue calls, where each stands
    documents,      \* the document files in documents_dir (their names)
    batch_size,     \* BatchUploadProcessor.batch_size
    checkpoint,     \* the checkpoint file
    run,            \* BatchUploadProcessor.run(): where it stands, its locals
    history         \* what happened to each document over all runs

dbVars == <<revision, tables, triggers, unique_index, hipaa, rows, db_result>>
logVars == <<dir_exists, log_exists, log_content, log_result, calls>>
batchVars == <<documents, batch_size, checkpoint, run, history>>
vars == <<revision, tables, triggers, unique_index, hipaa, rows, db_result,
          dir_exists, log_exists, log_content, log_result, calls,
          documents, batch_size, checkpoint, run, history>>

\* ------------------------------------------------------------------ bounds

\* Rows in the three audited tables together.
MaxRows == 2
\* change_events.event_seq ranges over 1..MaxSeq.
MaxSeq == 2
\* Lines of the issue log that are neither blank nor comments; a log the
\* model starts from has fewer than MaxLines lines.
MaxLines == 3
\* The fields in which an issue handed to validate_issue departs from the
\* issue log_login_bug_fix.py builds.
MaxDeviations == 2
\* Rows the audit store of SpecAuditStore holds at most.
MaxStored == 1
\* Document files, batch sizes and runs of the batch upload.
MaxDocs == 3
MaxBatch == 2
MaxRuns == 3

\* ================================================================== database

NULL == "NULL"

AuditTables == {"audit_logs", "change_events", "keystroke_logs"}

\* The tables 20251111_200050 creates, and all the tables of the model.
ImmutableTables == {"keystroke_logs", "change_events", "audit_immutable_index"}
AllTables == AuditTables \cup ImmutableTables

\* The migration chain, oldest first (each file's revision / down_revision).
Chain ==
    << "20251111_200000", "20251111_200001", "20251111_200010",
       "20251111_200020", "20251111_200030", "20251111_200040",
       "20251111_200050", "20251111_200060", "20251111_200070",
       "8c414c598b42", "f855a1bf370b", "20251111_220000",
       "aa50e71f0b83", "f97a3162ee67" >>

RevIdx(name) == CHOOSE i \in 1..Len(Chain) : Chain[i] = name

\* Primary key values (the UUIDs of id / event_id).
Ids == {1, 2}
Users == {"u1"}
EventTypes == {"LOGIN", "VIEW"}
AggregateIds == {"agg1", "agg2"}
Seqs == 1..MaxSeq
Hashes == {"h0", "h1"}

\* audit_logs as created by 20251111_200000 (actor_id NOT NULL).
LegacyAuditRows ==
    [id : Ids, actor_id : Users \cup {NULL}, event_type : EventTypes]

\* audit_logs after f855a1bf370b: renamed columns, user_id nullable, the new
\* columns with their server defaults.
HipaaAuditRows ==
    [id : Ids, user_id : Users \cup {NULL}, action_type : EventTypes,
     phi_accessed : BOOLEAN, status : {"success"}]

ChangeEventRows ==
    [event_id : Ids, aggregate_type : {"license"}, aggregate_id : AggregateIds,
     event_seq : Seqs]

KeystrokeRows ==
    [event_id : Ids, user_id : Users \cup {NULL}, integrity_hash : Hashes]

ImmutableIndexRows == [id : Ids, merkle_root : Hashes \cup {NULL}]

PK(t, r) ==
    IF t \in {"audit_logs", "audit_immutable_index"} THEN r.id ELSE r.event_id

TotalRows ==
    Cardinality(rows["audit_logs"]) + Cardinality(rows["change_events"])
        + Cardinality(rows["keystroke_logs"])
        + Cardinality(rows["audit_immutable_index"])

NoRows == [t \in AllTables |-> {}]

\* op: the operation; matched: it was an UPDATE or DELETE whose WHERE clause
\* matched a row; outcome: "ok" or the error it raised.
DbResult(op, t, matched, outcome) ==
    [op |-> op, table |-> t, matched |-> matched, outcome |-> outcome]

\* The (aggregate_type, aggregate_id, event_seq) key of a change_events row.
AggregateKey(r) == <<r.aggregate_type, r.aggregate_id, r.event_seq>>

HasDuplicateKey(S) ==
    \E r1 \in S, r2 \in S : r1 # r2 /\ AggregateKey(r1) = AggregateKey(r2)

\* ------------------------------------------------------- schema objects

prevent_audit_modification_returns_null == "return_null"

\* prevent_audit_modification(): what the trigger function does with the row
\* operation it is fired for. RAISE EXCEPTION aborts the statement.
prevent_audit_modification == "raise"

prevent_update_triggers_without_keystroke_logs == {"audit_logs", "change_events"}

\* The tables 8c414c598b42 puts a BEFORE UPDATE OR DELETE row trigger on.
prevent_update_triggers == {"audit_logs", "change_events", "keystroke_logs"}

ix_change_events_aggregate_not_unique == FALSE

\* ix_change_events_aggregate is created with unique=True.
ix_change_events_aggregate_unique == TRUE

\* Step 1 to 5 of f855a1bf370b on one row: renames, and the server defaults
\* of the added NOT NULL / defaulted columns.
ToHipaa(r) ==
    [id |-> r.id, user_id |-> r.actor_id, action_type |-> r.event_type,
     phi_accessed |-> FALSE, status |-> "success"]

\* The downgrade of f855a1bf370b on one row: the added columns are dropped,
\* the six renamed columns get their old names back.
ToLegacy(r) ==
    [id |-> r.id, actor_id |-> r.user_id, event_type |-> r.action_type]

\* The rows an INSERT may carry for table t in the current schema.
InsertRows(t) ==
    CASE t = "audit_logs" -> IF hipaa THEN HipaaAuditRows ELSE LegacyAuditRows
      [] t = "change_events" -> ChangeEventRows
      [] t = "audit_immutable_index" -> ImmutableIndexRows
      [] OTHER -> KeystrokeRows

\* NOT NULL columns among the modelled ones.
NotNullViolation(t, r) ==
    CASE t = "audit_logs" -> ~hipaa /\ r.actor_id = NULL
      [] t = "change_events" -> FALSE
      [] t = "audit_immutable_index" -> r.merkle_root = NULL
      [] OTHER -> r.user_id = NULL

\* Primary key and, where it exists, ix_change_events_aggregate, checked for
\* row r against the other rows S of table t.
PkeyViolation(t, r, S) == \E o \in S : PK(t, o) = PK(t, r)

IndexViolation(t, r, S) ==
    /\ t = "change_events"
    /\ unique_index
    /\ \E o \in S : AggregateKey(o) = AggregateKey(r)

UniqueViolation(t, r, S) == PkeyViolation(t, r, S) \/ IndexViolation(t, r, S)

UniqueError(t, r, S) ==
    IF PkeyViolation(t, r, S) THEN "unique_violation:pkey"
    ELSE "unique_violation:ix_change_events_aggregate"

\* The column an UPDATE of the model assigns, and the values it may assign.
UpdateValues(t) ==
    CASE t = "audit_logs" -> EventTypes
      [] t = "change_events" -> Seqs
      [] OTHER -> Hashes

Updated(t, r, v) ==
    CASE t = "audit_logs" ->
            IF hipaa THEN [r EXCEPT !.action_type = v]
                     ELSE [r EXCEPT !.event_type = v]
      [] t = "change_events" -> [r EXCEPT !.event_seq = v]
      [] t = "audit_immutable_index" -> [r EXCEPT !.merkle_root = v]
      [] OTHER -> [r EXCEPT !.integrity_hash = v]

Matching(t, id) == {r \in rows[t] : PK(t, r) = id}

\* ------------------------------------------------------- row operations

\* INSERT INTO t VALUES (r), by the application or by direct SQL.
Insert(t, r) ==
    LET outcome ==
            IF t \notin tables THEN "undefined_table"
            ELSE IF NotNullViolation(t, r) THEN "not_null_violation"
            ELSE IF UniqueViolation(t, r, rows[t]) THEN UniqueError(t, r, rows[t])
            ELSE "ok"
    IN  /\ outcome = "ok" => TotalRows < MaxRows
        /\ rows' = IF outcome = "ok"
                   THEN [rows EXCEPT ![t] = @ \cup {r}]
                   ELSE rows
        /\ db_result' = DbResult("insert", t, FALSE, outcome)
        /\ UNCHANGED <<revision, tables, triggers, unique_index, hipaa>>
        /\ UNCHANGED <<logVars, batchVars>>

\* What a row-level UPDATE or DELETE of the rows with primary key id ends in.
\* A BEFORE trigger fires once per matched row, before the row is touched.
RowOpOutcome(t, id, newRows) ==
    IF t \notin tables THEN "undefined_table"
    ELSE IF Matching(t, id) = {} THEN "ok"
    ELSE IF t \in triggers
         THEN IF prevent_audit_modification = "raise" THEN "immutable"
              ELSE "ok"
    ELSE IF \E r \in newRows : UniqueViolation(t, r, rows[t] \ Matching(t, id))
         THEN "unique_violation:ix_change_events_aggregate"
    ELSE "ok"

\* The trigger function returned NULL instead of raising: the row operation
\* is skipped silently.
Skipped(t, id) == t \in triggers /\ Matching(t, id) # {}

\* UPDATE t SET <column> = v WHERE <primary key> = id
Update(t, id, v) ==
    LET newRows == {Updated(t, r, v) : r \in Matching(t, id)}
        outcome == RowOpOutcome(t, id, newRows)
    IN  /\ rows' = IF outcome = "ok" /\ ~Skipped(t, id)
                   THEN [rows EXCEPT ![t] = (@ \ Matching(t, id)) \cup newRows]
                   ELSE rows
        /\ db_result' = DbResult("update", t, Matching(t, id) # {}, outcome)
        /\ UNCHANGED <<revision, tables, triggers, unique_index, hipaa>>
        /\ UNCHANGED <<logVars, batchVars>>

\* DELETE FROM t WHERE <primary key> = id
Delete(t, id) ==
    LET outcome == RowOpOutcome(t, id, {})
    IN  /\ rows' = IF outcome = "ok" /\ ~Skipped(t, id)
                   THEN [rows EXCEPT ![t] = @ \ Matching(t, id)]
                   ELSE rows
        /\ db_result' = DbResult("delete", t, Matching(t, id) # {}, outcome)
        /\ UNCHANGED <<revision, tables, triggers, unique_index, hipaa>>
        /\ UNCHANGED <<logVars, batchVars>>

\* ------------------------------------------------------- migrations

\* 20251111_200000 upgrade: create_table("audit_logs", ...).
upgrade_20251111_200000 ==
    /\ tables' = tables \cup {"audit_logs"}
    /\ UNCHANGED <<triggers, unique_index, hipaa, rows>>

\* 20251111_200000 downgrade: drop_table("audit_logs").
downgrade_20251111_200000 ==
    /\ tables' = tables \ {"audit_logs"}
    /\ triggers' = triggers \ {"audit_logs"}
    /\ rows' = [rows EXCEPT !["audit_logs"] = {}]
    /\ UNCHANGED <<unique_index, hipaa>>

\* 20251111_200050 upgrade: create_table keystroke_logs, change_events and
\* audit_immutable_index.
upgrade_20251111_200050 ==
    /\ tables' = tables \cup ImmutableTables
    /\ UNCHANGED <<triggers, unique_index, hipaa, rows>>

\* 20251111_200050 downgrade: drop_table audit_immutable_index,
\* change_events and keystroke_logs.
downgrade_20251111_200050 ==
    /\ tables' = tables \ ImmutableTables
    /\ triggers' = triggers \ ImmutableTables
    /\ rows' = [rows EXCEPT !["keystroke_logs"] = {}, !["change_events"] = {},
                            !["audit_immutable_index"] = {}]
    /\ UNCHANGED <<unique_index, hipaa>>

\* 20251111_200060 upgrade: create_index ix_change_events_aggregate. Building
\* a unique index over rows that already repeat a key fails.
upgrade_20251111_200060_fails ==
    ix_change_events_aggregate_unique /\ HasDuplicateKey(rows["change_events"])

upgrade_20251111_200060 ==
    /\ unique_index' = ix_change_events_aggregate_unique
    /\ UNCHANGED <<tables, triggers, hipaa, rows>>

\* 20251111_200060 downgrade: drop_index ix_change_events_aggregate.
downgrade_20251111_200060 ==
    /\ unique_index' = FALSE
    /\ UNCHANGED <<tables, triggers, hipaa, rows>>

\* 8c414c598b42 upgrade: the trigger function and the three triggers.
upgrade_8c414c598b42 ==
    /\ triggers' = triggers \cup prevent_update_triggers
    /\ UNCHANGED <<tables, unique_index, hipaa, rows>>

\* 8c414c598b42 downgrade: DROP TRIGGER IF EXISTS on the three tables.
downgrade_8c414c598b42 ==
    /\ triggers' = {}
    /\ UNCHANGED <<tables, unique_index, hipaa, rows>>

\* f855a1bf370b upgrade: ALTER TABLE audit_logs (renames, user_id nullable,
\* added columns). Row triggers do not fire for ALTER TABLE.
upgrade_f855a1bf370b ==
    /\ hipaa' = TRUE
    /\ rows' = [rows EXCEPT !["audit_logs"] = {ToHipaa(r) : r \in @}]
    /\ UNCHANGED <<tables, triggers, unique_index>>

\* f855a1bf370b downgrade: alter_column(user_id, nullable=False) fails while
\* a row holds a NULL user_id.
downgrade_f855a1bf370b_fails ==
    \E r \in rows["audit_logs"] : r.user_id = NULL

downgrade_f855a1bf370b ==
    /\ hipaa' = FALSE
    /\ rows' = [rows EXCEPT !["audit_logs"] = {ToLegacy(r) : r \in @}]
    /\ UNCHANGED <<tables, triggers, unique_index>>

\* The migrations that touch none of the audited tables.
other_migration == UNCHANGED <<tables, triggers, unique_index, hipaa, rows>>

\* alembic upgrade +1: the next revision's upgrade(), in one transaction.
Upgrade ==
    /\ revision < Len(Chain)
    /\ LET target == Chain[revision + 1]
           fails == target = "20251111_200060" /\ upgrade_20251111_200060_fails
       IN  /\ IF fails
              THEN UNCHANGED <<tables, triggers, unique_index, hipaa, rows>>
              ELSE CASE target = "20251111_200000" -> upgrade_20251111_200000
                     [] target = "20251111_200050" -> upgrade_20251111_200050
                     [] target = "20251111_200060" -> upgrade_20251111_200060
                     [] target = "8c414c598b42" -> upgrade_8c414c598b42
                     [] target = "f855a1bf370b" -> upgrade_f855a1bf370b
                     [] OTHER -> other_migration
           /\ revision' = IF fails THEN revision ELSE revision + 1
           /\ db_result' = DbResult("upgrade", "-", FALSE,
                               IF fails THEN "unique_violation:ix_change_events_aggregate"
                               ELSE "ok")
    /\ UNCHANGED <<logVars, batchVars>>

\* alembic downgrade -1: the current revision's downgrade(), in one transaction.
Downgrade ==
    /\ revision > 0
    /\ LET target == Chain[revision]
           fails == target = "f855a1bf370b" /\ downgrade_f855a1bf370b_fails
       IN  /\ IF fails
              THEN UNCHANGED <<tables, triggers, unique_index, hipaa, rows>>
              ELSE CASE target = "20251111_200000" -> downgrade_20251111_200000
                     [] target = "20251111_200050" -> downgrade_20251111_200050
                     [] target = "20251111_200060" -> downgrade_20251111_200060
                     [] target = "8c414c598b42" -> downgrade_8c414c598b42
                     [] target = "f855a1bf370b" -> downgrade_f855a1bf370b
                     [] OTHER -> other_migration
           /\ revision' = IF fails THEN revision ELSE revision - 1
           /\ db_result' = DbResult("downgrade", "-", FALSE,
                               IF fails THEN "not_null_violation" ELSE "ok")
    /\ UNCHANGED <<logVars, batchVars>>

\* ------------------------------------------------------- reset scripts

\* scripts/reset_database.py, reset_db_simple.py, scripts/reset_db.py:
\* DROP SCHEMA public CASCADE; CREATE SCHEMA public. Every table of the
\* schema goes, with its rows, triggers and indexes, and alembic_version too.
reset_database ==
    /\ revision' = 0
    /\ tables' = {}
    /\ triggers' = {}
    /\ unique_index' = FALSE
    /\ hipaa' = FALSE
    /\ rows' = NoRows
    /\ db_result' = DbResult("reset", "-", FALSE, "ok")
    /\ UNCHANGED <<logVars, batchVars>>

\* ------------------------------------------------------- specification

\* No concurrent call of append_issue.
NoCalls == <<>>

NoLogResult ==
    [op |-> "none", issue_id |-> "-", status |-> "-", exc |-> "none",
     check |-> "-"]

\* No issue log, no directory for it.
LogIdle ==
    /\ dir_exists = FALSE
    /\ log_exists = FALSE
    /\ log_content = <<>>
    /\ log_result = NoLogResult
    /\ calls = NoCalls

\* No batch upload: no documents, no checkpoint file, no run.
NoRun == [pc |-> "none"]

\* No checkpoint file.
NoCheckpoint ==
    [state |-> "missing", processed_files |-> <<>>, successful |-> 0,
     failed |-> 0, last_batch |-> 0]

NoHistory ==
    [processed |-> <<>>, failed |-> {}, in_flight |-> {}, saved |-> {},
     runs |-> 0]

BatchIdle ==
    /\ documents = {}
    /\ batch_size = 1
    /\ checkpoint = NoCheckpoint
    /\ run = NoRun
    /\ history = NoHistory

\* An empty database before the first migration.
DbIdle ==
    /\ revision = 0
    /\ tables = {}
    /\ triggers = {}
    /\ unique_index = FALSE
    /\ hipaa = FALSE
    /\ rows = NoRows
    /\ db_result = DbResult("init", "-", FALSE, "ok")

InitDb == DbIdle /\ LogIdle /\ BatchIdle

DoInsert == \E t \in AuditTables : \E r \in InsertRows(t) : Insert(t, r)
DoUpdate ==
    \E t \in AuditTables : \E id \in Ids : \E v \in UpdateValues(t) :
        Update(t, id, v)
DoDelete == \E t \in AuditTables : \E id \in Ids : Delete(t, id)

NextDb ==
    \/ DoInsert
    \/ DoUpdate
    \/ DoDelete
    \/ Upgrade
    \/ Downgrade
    \/ reset_database

SpecDb == InitDb /\ [][NextDb]_vars

\* ================================================================== issue log

\* ------------------------------------------------------- Python values

\* A value is its type, its text (an abstract name for a str), its number (the
\* len of a str or list, the value of an int) and, for a list, its elements.
PyStr(s, n) == [t |-> "str", s |-> s, n |-> n, items |-> <<>>]
PyInt(n) == [t |-> "int", s |-> "", n |-> n, items |-> <<>>]
PyBool(b) == [t |-> "bool", s |-> "", n |-> IF b THEN 1 ELSE 0, items |-> <<>>]
PyNone == [t |-> "NoneType", s |-> "", n |-> 0, items |-> <<>>]
PyList(xs) == [t |-> "list", s |-> "", n |-> Len(xs), items |-> xs]

\* isinstance(v, typ) for the three types REQUIRED_FIELDS names; bool is a
\* subclass of int.
isinstance(v, typ) ==
    CASE typ = "str" -> v.t = "str"
      [] typ = "list" -> v.t = "list"
      [] typ = "int" -> v.t \in {"int", "bool"}

\* a or b: None, 0, False, "" and [] are false.
Or(a, b) == IF a.n = 0 THEN b ELSE a

\* d.get(k): a dict is a function from its keys.
Get(d, k) == IF k \in DOMAIN d THEN d[k] ELSE PyNone

\* d.get(k, default)
GetOr(d, k, default) == IF k \in DOMAIN d THEN d[k] ELSE default

\* ------------------------------------------------------- class constants

REQUIRED_FIELDS ==
    << <<"issue_id", "str">>, <<"timestamp_utc", "str">>, <<"repo", "str">>,
       <<"agent", "str">>, <<"severity", "str">>, <<"type", "str">>,
       <<"status", "str">>, <<"title", "str">>, <<"description", "str">>,
       <<"repro", "str">>, <<"root_cause_guess", "str">>,
       <<"blocked_by", "list">>, <<"depends_on", "list">>,
       <<"attempts", "int">>, <<"fix_summary", "str">> >>

RequiredNames == {REQUIRED_FIELDS[i][1] : i \in 1..Len(REQUIRED_FIELDS)}

VALID_REPOS ==
    {"credentialmate-app", "credentialmate-infra", "credentialmate-rules",
     "credentialmate-notification", "credentialmate-schemas",
     "credentialmate-ai", "credentialmate-docs"}

VALID_SEVERITIES == {"CRITICAL", "HIGH", "MEDIUM", "LOW"}

VALID_TYPES ==
    {"bug", "enhancement", "tech_debt", "security", "documentation",
     "performance", "compliance"}

VALID_STATUSES ==
    {"NEW", "TRIAGED", "IN_PROGRESS", "FIXED", "VERIFIED", "CLOSED", "WONTFIX"}

\* ------------------------------------------------------- UUIDs, timestamps

\* The issue_id append_fix_status.py writes.
FixId == "a16d7f13-4586-4fb8-ad91-24facc03042d"
\* Another canonical version 4 UUID.
OtherId == "0660d438-200e-4dbe-b2a3-ccb82468d3ff"

Uuid4s == {FixId, OtherId}

\* str(uuid.UUID(s, version=4)) for the texts of the model, "ValueError" where
\* the constructor raises: it accepts upper case and missing hyphens, and
\* version=4 overwrites the version and variant bits of what it parsed.
uuid_UUID_str(s) ==
    CASE s \in Uuid4s -> s
      [] s = "A16D7F13-4586-4FB8-AD91-24FACC03042D" -> FixId
      [] s = "a16d7f1345864fb8ad9124facc03042d" -> FixId
      [] s = "a16d7f13-4586-1fb8-ad91-24facc03042d" -> FixId
      [] s = "a16d7f13-4586-4fb8-2d91-24facc03042d" -> FixId
      [] OTHER -> "ValueError"

UuidTexts ==
    Uuid4s \cup {"A16D7F13-4586-4FB8-AD91-24FACC03042D",
                 "a16d7f1345864fb8ad9124facc03042d",
                 "a16d7f13-4586-1fb8-ad91-24facc03042d",
                 "a16d7f13-4586-4fb8-2d91-24facc03042d",
                 "not-a-uuid"}

\* _is_valid_uuid4(value): "True", "False", or the exception that escapes its
\* except (ValueError, AttributeError) clause. uuid.UUID(None) raises
\* TypeError; a value without .replace raises AttributeError.
is_valid_uuid4(value) ==
    CASE value.t = "NoneType" -> "TypeError"
      [] value.t # "str" -> "False"
      [] uuid_UUID_str(value.s) = "ValueError" -> "False"
      [] OTHER -> IF uuid_UUID_str(value.s) = value.s THEN "True" ELSE "False"

\* The timestamp texts of the model: does it end in Z, and does
\* datetime.fromisoformat accept it without the last character.
TimestampTexts ==
    {"2025-11-16T16:30:00Z", "2025-11-16T16:30:00.123456Z", "2025-11-16Z",
     "2025-11-16T16:30:00+05:00Z", "2025-11-16T16:30:00", "garbageZ"}

endswith_Z(s) == s # "2025-11-16T16:30:00"

fromisoformat_ok(s) == s # "garbageZ"

\* _is_valid_timestamp(value)
is_valid_timestamp(value) ==
    IF ~endswith_Z(value.s) THEN FALSE ELSE fromisoformat_ok(value.s)

\* ------------------------------------------------------- the log file

\* The file's content is a sequence of tokens: a newline, or a run of text
\* without a newline: a comment (text starting with #), white space, a JSON
\* object, another JSON value, or text that is no JSON.
Token(c, v) == [c |-> c, v |-> v]
NL == Token("nl", <<>>)
CommentText == Token("comment", <<>>)
SpaceText == Token("space", <<>>)
GarbageText == Token("text", <<>>)

\* json.dump(obj, f, separators=(",", ":")): one run of text without a newline
\* (json escapes the line breaks of strings).
json_dump(obj) ==
    IF DOMAIN obj \subseteq {"t", "s", "n", "items"}
    THEN Token("value", obj)
    ELSE Token("object", obj)

ISSUES_LOG_HEADER_without_empty_line ==
    << CommentText, NL, CommentText, NL, CommentText, NL, CommentText, NL,
       CommentText, NL, CommentText, NL, CommentText, NL, CommentText, NL,
       CommentText, NL >>

\* ISSUES_LOG_HEADER: nine comment lines and an empty line.
ISSUES_LOG_HEADER ==
    << CommentText, NL, CommentText, NL, CommentText, NL, CommentText, NL,
       CommentText, NL, CommentText, NL, CommentText, NL, CommentText, NL,
       CommentText, NL, NL >>

Min(S) == CHOOSE x \in S : \A y \in S : x <= y
Max(S) == CHOOSE x \in S : \A y \in S : x >= y

\* for line in f: the text up to each newline, and what follows the last one
\* when that is not empty.
RECURSIVE FileLines(_)
FileLines(content) ==
    IF content = <<>> THEN <<>>
    ELSE LET nls == {i \in 1..Len(content) : content[i] = NL}
         IN  IF nls = {} THEN <<content>>
             ELSE << SubSeq(content, 1, Min(nls) - 1) >>
                    \o FileLines(SubSeq(content, Min(nls) + 1, Len(content)))

\* line.strip()
strip(line) ==
    LET kept == {i \in 1..Len(line) : line[i].c # "space"}
    IN  IF kept = {} THEN <<>> ELSE SubSeq(line, Min(kept), Max(kept))

\* What the readers' loop body does with one line: skip it (blank or comment),
\* or json.loads it: a dict, another value, or JSONDecodeError. Text before or
\* after a JSON value on the same line makes the line invalid JSON.
ParseLine(line) ==
    LET l == strip(line)
    IN  IF l = <<>> \/ l[1].c = "comment" THEN [k |-> "skip", v |-> <<>>]
        ELSE IF Len(l) = 1 /\ l[1].c \in {"object", "value"}
             THEN [k |-> l[1].c, v |-> l[1].v]
             ELSE [k |-> "JSONDecodeError", v |-> <<>>]

\* The entries of a log: its lines that are JSON objects, in file order.
Entries(content) ==
    LET lines == FileLines(content)
        RECURSIVE Collect(_)
        Collect(i) ==
            IF i > Len(lines) THEN <<>>
            ELSE LET p == ParseLine(lines[i])
                 IN  (IF p.k = "object" THEN <<p.v>> ELSE <<>>) \o Collect(i + 1)
    IN  Collect(1)

\* ------------------------------------------------------- validate_issue

\* The first field, in REQUIRED_FIELDS order, whose value has the wrong type;
\* 0 when there is none.
FirstWrongType(issue) ==
    LET bad == {i \in 1..Len(REQUIRED_FIELDS) :
                    ~isinstance(issue[REQUIRED_FIELDS[i][1]], REQUIRED_FIELDS[i][2])}
    IN  IF bad = {} THEN 0 ELSE Min(bad)

\* for uuid_str in issue[field]: the loop stops at the first element that is
\* not a UUID4 ("invalid") or that makes uuid.UUID raise TypeError.
UuidListCheck(list) ==
    LET bad == {i \in 1..Len(list.items) : is_valid_uuid4(list.items[i]) # "True"}
    IN  IF bad = {} THEN "ok"
        ELSE IF is_valid_uuid4(list.items[Min(bad)]) = "TypeError" THEN "TypeError"
        ELSE "invalid"

ScanStep_never_duplicate(parsed, issue_id) ==
    IF parsed.k = "value" THEN "warning" ELSE "next"

ScanStep_skips_values(parsed, issue_id) ==
    IF parsed.k = "object" /\ Get(parsed.v, "issue_id") = issue_id
    THEN "duplicate"
    ELSE "next"

\* What stops the scan for issue_id at a parsed line: an equal issue_id raises
\* IssueValidationError; a JSON value without .get raises AttributeError, which
\* the outer except turns into a warning that ends the scan.
ScanStep(parsed, issue_id) ==
    CASE parsed.k = "object" ->
            IF Get(parsed.v, "issue_id") = issue_id THEN "duplicate" ELSE "next"
      [] parsed.k = "value" -> "warning"
      [] OTHER -> "next"

\* The duplicate check: "duplicate", or "ok" when the scan ends without one.
DuplicateScan(exists, content, issue_id) ==
    LET lines == FileLines(content)
        RECURSIVE Scan(_)
        Scan(i) ==
            IF i > Len(lines) THEN "ok"
            ELSE LET step == ScanStep(ParseLine(lines[i]), issue_id)
                 IN  CASE step = "duplicate" -> "duplicate"
                       [] step = "warning" -> "ok"
                       [] OTHER -> Scan(i + 1)
    IN  IF ~exists THEN "ok" ELSE Scan(1)

\* The check on the type of a field: "Field '<field>' must be <type>, got ...".
MustBe(field) ==
    CASE field = "issue_id" -> "issue_id must be str"
      [] field = "timestamp_utc" -> "timestamp_utc must be str"
      [] field = "repo" -> "repo must be str"
      [] field = "agent" -> "agent must be str"
      [] field = "severity" -> "severity must be str"
      [] field = "type" -> "type must be str"
      [] field = "status" -> "status must be str"
      [] field = "title" -> "title must be str"
      [] field = "description" -> "description must be str"
      [] field = "repro" -> "repro must be str"
      [] field = "root_cause_guess" -> "root_cause_guess must be str"
      [] field = "blocked_by" -> "blocked_by must be list"
      [] field = "depends_on" -> "depends_on must be list"
      [] field = "attempts" -> "attempts must be int"
      [] field = "fix_summary" -> "fix_summary must be str"

Raised(exc, check) == [exc |-> exc, check |-> check]
IVE(check) == Raised("IssueValidationError", check)
Returned == Raised("none", "-")

\* validate_issue(issue): it returns, or raises at the named check.
validate_issue(issue, exists, content) ==
    IF RequiredNames \ DOMAIN issue # {} THEN IVE("missing")
    ELSE IF FirstWrongType(issue) # 0
         THEN IVE(MustBe(REQUIRED_FIELDS[FirstWrongType(issue)][1]))
    ELSE IF is_valid_uuid4(issue["issue_id"]) # "True" THEN IVE("uuid4")
    ELSE IF ~is_valid_timestamp(issue["timestamp_utc"]) THEN IVE("timestamp")
    ELSE IF issue["repo"].s \notin VALID_REPOS THEN IVE("repo")
    ELSE IF issue["severity"].s \notin VALID_SEVERITIES THEN IVE("severity")
    ELSE IF issue["type"].s \notin VALID_TYPES THEN IVE("type")
    ELSE IF issue["status"].s \notin VALID_STATUSES THEN IVE("status")
    ELSE IF issue["title"].n < 10 \/ issue["title"].n > 200 THEN IVE("title")
    ELSE IF issue["description"].n < 20 THEN IVE("description")
    ELSE IF issue["repro"].n < 10 THEN IVE("repro")
    ELSE IF issue["root_cause_guess"].n < 10 THEN IVE("root_cause_guess")
    ELSE IF issue["attempts"].n < 0 THEN IVE("attempts")
    ELSE IF UuidListCheck(issue["blocked_by"]) = "TypeError" THEN Raised("TypeError", "blocked_by")
    ELSE IF UuidListCheck(issue["blocked_by"]) # "ok" THEN IVE("blocked_by")
    ELSE IF UuidListCheck(issue["depends_on"]) = "TypeError" THEN Raised("TypeError", "depends_on")
    ELSE IF UuidListCheck(issue["depends_on"]) # "ok" THEN IVE("depends_on")
    ELSE IF DuplicateScan(exists, content, issue["issue_id"]) = "duplicate"
         THEN IVE("duplicate")
    ELSE Returned

\* ------------------------------------------------------- issues

\* len() of the texts whose length the model does not vary.
TextLen(s) ==
    CASE s \in UuidTexts -> IF s = "not-a-uuid" THEN 10
                            ELSE IF s = "a16d7f1345864fb8ad9124facc03042d" THEN 32
                            ELSE 36
      [] s \in {"2025-11-16T16:30:00Z"} -> 20
      [] s \in {"2025-11-16T16:30:00.123456Z"} -> 27
      [] s \in {"credentialmate-app"} -> 18
      [] s \in {"claude-code-bugfix-v1"} -> 21
      [] s \in {"CRITICAL", "VERIFIED"} -> 8
      [] s \in {"NEW", "bug"} -> 3
      [] s \in {"FIXED"} -> 5
      [] s \in {"CLOSED", "URGENT"} -> 6
      [] s \in {"TRIAGED", "WONTFIX"} -> 7
      [] s \in {"IN_PROGRESS"} -> 11
      [] s \in {"REGRESSION"} -> 10
      [] OTHER -> 0

Text(s) == PyStr(s, TextLen(s))

create_issue_without_list_defaults(uuid4, utcnow, repo, agent, severity, issue_type, title, description, repro, root_cause_guess, blocked_by, depends_on) ==
    [issue_id |-> uuid4, timestamp_utc |-> utcnow, repo |-> repo,
     agent |-> agent, severity |-> severity, type |-> issue_type,
     status |-> PyStr("NEW", 3), title |-> title, description |-> description,
     repro |-> repro, root_cause_guess |-> root_cause_guess,
     blocked_by |-> blocked_by, depends_on |-> depends_on,
     attempts |-> PyInt(0), fix_summary |-> PyStr("", 0)]

\* create_issue(...): uuid4 and utcnow are what uuid.uuid4() and
\* datetime.utcnow().isoformat() + "Z" returned.
create_issue(uuid4, utcnow, repo, agent, severity, issue_type, title, description, repro, root_cause_guess, blocked_by, depends_on) ==
    [issue_id |-> uuid4,
     timestamp_utc |-> utcnow,
     repo |-> repo,
     agent |-> agent,
     severity |-> severity,
     type |-> issue_type,
     status |-> Text("NEW"),
     title |-> title,
     description |-> description,
     repro |-> repro,
     root_cause_guess |-> root_cause_guess,
     blocked_by |-> Or(blocked_by, PyList(<<>>)),
     depends_on |-> Or(depends_on, PyList(<<>>)),
     attempts |-> PyInt(0),
     fix_summary |-> PyStr("", 0)]

\* The issue log_login_bug_fix.py builds, for the uuid4 it drew.
LoginBugIssue(uuid4) ==
    create_issue(Text(uuid4), Text("2025-11-16T16:30:00.123456Z"),
                 Text("credentialmate-app"), Text("claude-code-bugfix-v1"),
                 Text("CRITICAL"), Text("bug"), PyStr("title", 65),
                 PyStr("description", 342), PyStr("repro", 253),
                 PyStr("root_cause_guess", 280), PyList(<<>>), PyList(<<>>))

\* status_update of append_fix_status.py.
status_update ==
    [issue_id |-> Text(FixId),
     timestamp_utc |-> Text("2025-11-16T16:30:00Z"),
     status |-> Text("FIXED"),
     previous_status |-> Text("NEW"),
     updated_by |-> Text("claude-code-bugfix-v1"),
     attempts |-> PyInt(1),
     fix_summary |-> PyStr("fix_summary", 296),
     fix_location |-> PyStr("fix_location", 26),
     fix_type |-> PyStr("fix_type", 24),
     test_status |-> PyStr("test_status", 44),
     build_verified |-> PyBool(TRUE),
     artifacts |-> PyList(<<PyStr("artifact1", 39), PyStr("artifact2", 22),
                            PyStr("artifact3", 33)>>)]

\* The statuses the callers of append_issue pass in the model: the first and
\* the last of VALID_STATUSES and one outside it.
InputStatuses == {"NEW", "CLOSED", "REGRESSION"}

\* A valid issue but for its status: the login bug issue with that status.
IssueWith(uuid4, status) ==
    [LoginBugIssue(uuid4) EXCEPT !["status"] = Text(status)]

Without(d, k) == [f \in DOMAIN d \ {k} |-> d[f]]

\* Issues that break one constraint each.
InvalidIssues ==
    LET b == LoginBugIssue(FixId)
    IN  { Without(b, "fix_summary"),
          [b EXCEPT !["issue_id"] = Text("A16D7F13-4586-4FB8-AD91-24FACC03042D")],
          [b EXCEPT !["title"] = PyStr("title", 9)],
          [b EXCEPT !["blocked_by"] = PyList(<<PyNone>>)] }

\* The issues append_issue is called with.
Issues ==
    {IssueWith(id, st) : id \in Uuid4s, st \in InputStatuses} \cup InvalidIssues

\* ------------------------------------------------------- writers

\* The lines of the log that are neither blank nor comments.
DataLines(content) ==
    LET lines == FileLines(content)
    IN  Cardinality({i \in 1..Len(lines) : ParseLine(lines[i]).k # "skip"})

\* What an operation on the log ended in: the issue_id and status of the
\* entry it was given ("-" where the entry has none), and the exception that
\* left it, "none" when it returned.
LogResult(op, entry, r) ==
    [op |-> op,
     issue_id |-> GetOr(entry, "issue_id", Text("-")).s,
     status |-> GetOr(entry, "status", Text("-")).s,
     exc |-> r.exc, check |-> r.check]

open_mode_w == "w"

\* The mode of the open() that precedes json.dump, in append_issue and in
\* append_fix_status.py.
open_mode_a == "a"

write_never_truncates(mode, content, data) == content \o data

\* with open(path, mode) as f: f.write(data) on a file holding content.
write(mode, content, data) == IF mode = "a" THEN content \o data ELSE data

validate_after_appending == FALSE

\* append_issue calls validate_issue before it touches the file system.
validate_before_appending == TRUE

\* append_issue(issue), called by caller.
append_issue(caller, issue) ==
    LET r == validate_issue(issue, log_exists, log_content)
        raised == r.exc # "none"
        written == ~raised \/ ~validate_before_appending
        with_header == IF log_exists THEN log_content
                       ELSE write("w", <<>>, ISSUES_LOG_HEADER)
    IN  /\ ~raised => DataLines(log_content) < MaxLines
        /\ dir_exists' = (dir_exists \/ written)
        /\ log_exists' = (log_exists \/ written)
        /\ log_content' = IF written
                          THEN write(open_mode_a, with_header,
                                     <<json_dump(issue), NL>>)
                          ELSE log_content
        /\ log_result' = LogResult(caller, issue, r)
        /\ UNCHANGED <<dbVars, batchVars, calls>>

\* log_login_bug_fix.py main(): create_issue with a fresh uuid4, then
\* append_issue. The script lives in the directory of the log.
log_login_bug_fix_main ==
    /\ dir_exists
    /\ \E uuid4 \in Uuid4s :
            append_issue("log_login_bug_fix", LoginBugIssue(uuid4))

\* append_fix_status.py main(): open(log_path, "a") creates a missing file;
\* nothing is read and nothing is validated.
append_fix_status_main ==
    /\ dir_exists
    /\ DataLines(log_content) < MaxLines
    /\ log_exists' = TRUE
    /\ log_content' = write(open_mode_a, log_content,
                            <<json_dump(status_update), NL>>)
    /\ log_result' = LogResult("append_fix_status", status_update, Returned)
    /\ UNCHANGED <<dir_exists, dbVars, batchVars, calls>>

\* ------------------------------------------------------- specifications

\* No log yet; its directory may exist.
InitLog ==
    /\ DbIdle
    /\ BatchIdle
    /\ dir_exists \in BOOLEAN
    /\ log_exists = FALSE
    /\ log_content = <<>>
    /\ log_result = NoLogResult
    /\ calls = NoCalls

DoAppendIssue == \E issue \in Issues : append_issue("append_issue", issue)

NextLog ==
    \/ DoAppendIssue
    \/ log_login_bug_fix_main
    \/ append_fix_status_main

\* The log as the three writers make it, from no log.
SpecLog == InitLog /\ [][NextLog]_vars

\* The lines a log may hold when the writers find it: a comment, white space,
\* text that is no JSON, a JSON value that is no object, an entry.
FoundLines ==
    { <<CommentText>>, <<SpaceText>>, <<GarbageText>>,
      <<json_dump(PyList(<<>>))>>,
      <<SpaceText, json_dump(LoginBugIssue(FixId)), SpaceText>> }

RECURSIVE Join(_)
Join(lines) ==
    IF lines = <<>> THEN <<>> ELSE Head(lines) \o <<NL>> \o Join(Tail(lines))

\* Any log of fewer than MaxLines lines; the last line may lack its newline.
FoundContents ==
    LET seqs == UNION {[1..n -> FoundLines] : n \in 0..(MaxLines - 1)}
    IN  {Join(ls) : ls \in seqs}
            \cup {SubSeq(Join(ls), 1, Len(Join(ls)) - 1) : ls \in seqs \ {<<>>}}

\* Any log, or none.
InitAnyLog ==
    /\ DbIdle
    /\ BatchIdle
    /\ dir_exists \in BOOLEAN
    /\ log_exists \in BOOLEAN
    /\ log_exists => dir_exists
    /\ log_content \in IF log_exists THEN FoundContents ELSE {<<>>}
    /\ log_result = NoLogResult
    /\ calls = NoCalls

\* The writers on any log.
SpecAnyLog == InitAnyLog /\ [][NextLog]_vars

\* ================================================================== claims

RowOps == {"insert", "update", "delete"}

\* C1: at the schema of 8c414c598b42 and at every later revision, an UPDATE or
\* DELETE whose target is an existing row of audit_logs, change_events or
\* keystroke_logs raises the trigger's error and leaves every row of the three
\* tables as it was; of the row operations only INSERT changes the tables.
C1_UpdateDeleteRaiseAndChangeNothing ==
    [][ (revision >= RevIdx("8c414c598b42") /\ db_result'.op \in RowOps) =>
            /\ (db_result'.op \in {"update", "delete"} /\ db_result'.matched) =>
                    (db_result'.outcome = "immutable" /\ rows' = rows)
            /\ rows' # rows => db_result'.op = "insert" ]_vars

\* C1 witness: a DELETE or UPDATE of an existing row was just rejected by the
\* trigger at or after 8c414c598b42.
C1_Witness ==
    /\ revision >= RevIdx("8c414c598b42")
    /\ db_result.op \in {"update", "delete"}
    /\ db_result.matched
    /\ db_result.outcome = "immutable"
    /\ rows[db_result.table] # {}

\* C2: no operation of a non-migration actor (a row operation or a database
\* reset script) removes or alters a persisted record of a table that carries
\* the immutability trigger.
C2_NonMigrationActorsKeepRecords ==
    [][ (revision >= RevIdx("8c414c598b42")
            /\ db_result'.op \in RowOps \cup {"reset"}) =>
            \A t \in AuditTables : rows[t] \subseteq rows'[t] ]_vars

\* C7: from 20251111_200060 on no two change_events rows share
\* (aggregate_type, aggregate_id, event_seq): a successful INSERT adds exactly
\* one row whose key no stored row has, and an INSERT that raises leaves the
\* tables unchanged.
C7_AggregateKeyUnique ==
    [][ /\ revision' >= RevIdx("20251111_200060") =>
                ~HasDuplicateKey(rows'["change_events"])
        /\ (revision >= RevIdx("20251111_200060") /\ db_result'.op = "insert"
                /\ db_result'.table = "change_events") =>
                IF db_result'.outcome = "ok"
                THEN \E r \in rows'["change_events"] \ rows["change_events"] :
                        /\ rows' = [rows EXCEPT !["change_events"] = @ \cup {r}]
                        /\ \A o \in rows["change_events"] :
                                AggregateKey(o) # AggregateKey(r)
                ELSE rows' = rows ]_vars

\* C7 witness: an INSERT into change_events was just rejected by the unique
\* index, the table still holding the row whose key it repeated.
C7_Witness ==
    /\ revision >= RevIdx("20251111_200060")
    /\ db_result.op = "insert"
    /\ db_result.table = "change_events"
    /\ db_result.outcome = "unique_violation:ix_change_events_aggregate"
    /\ rows["change_events"] # {}

\* C8: an INSERT into change_events succeeds only if its event_seq is greater
\* than every event_seq stored for the same aggregate.
C8_EventSeqIncreasesPerAggregate ==
    [][ (revision >= RevIdx("20251111_200060") /\ db_result'.op = "insert"
            /\ db_result'.outcome = "ok") =>
            \A r \in rows'["change_events"] \ rows["change_events"] :
                \A o \in rows["change_events"] :
                    (o.aggregate_type = r.aggregate_type
                        /\ o.aggregate_id = r.aggregate_id) =>
                            r.event_seq > o.event_seq ]_vars


\* ------------------------------------------------------- issue log claims

IsPrefix(a, b) == Len(a) <= Len(b) /\ SubSeq(b, 1, Len(a)) = a

\* The issue_id texts of the entries of a log.
EntryIds(content) ==
    {Get(Entries(content)[i], "issue_id").s : i \in 1..Len(Entries(content))}

\* The entries of a log that carry issue_id id, in file order.
EntriesOf(content, id) ==
    SelectSeq(Entries(content), LAMBDA e : Get(e, "issue_id").s = id)

Appenders == {"append_issue", "log_login_bug_fix"}

\* The step was a call of append_issue with an issue that passes every check
\* before the duplicate scan.
OtherwiseValidAppend ==
    /\ log_result'.op \in Appenders
    /\ log_result'.check \in {"-", "duplicate"}

\* The step appended exactly one line holding the entry it was given.
AppendedOneLine ==
    /\ log_exists'
    /\ LET old == IF log_exists THEN log_content ELSE ISSUES_LOG_HEADER
       IN  /\ Len(log_content') = Len(old) + 2
           /\ SubSeq(log_content', 1, Len(old)) = old
           /\ log_content'[Len(log_content')] = NL
           /\ log_content'[Len(log_content') - 1].c = "object"
           /\ Get(log_content'[Len(log_content') - 1].v, "issue_id").s
                  = log_result'.issue_id
           /\ Get(log_content'[Len(log_content') - 1].v, "status").s
                  = log_result'.status

\* C3 as stated: in every log the three writers produce from a missing log,
\* no two entry lines have the same issue_id.
C3_NoTwoEntriesShareIssueId ==
    \A i, j \in 1..Len(Entries(log_content)) :
        i # j => Get(Entries(log_content)[i], "issue_id")
                     # Get(Entries(log_content)[j], "issue_id")

\* C3 amended: in every log the three writers produce from a missing log, an
\* entry line that repeats the issue_id of an earlier line is a status update
\* written by append_fix_status.main; append_issue, and log_login_bug_fix.main
\* through it, never write an issue_id the log already holds.
C3_OnlyStatusUpdatesRepeatIssueId ==
    \A i, j \in 1..Len(Entries(log_content)) :
        (i < j /\ Get(Entries(log_content)[i], "issue_id")
                      = Get(Entries(log_content)[j], "issue_id"))
            => Entries(log_content)[j] = status_update

\* An issue entry for FixId followed by the status update for it.
C3_Witness ==
    /\ Len(EntriesOf(log_content, FixId)) >= 2
    /\ EntriesOf(log_content, FixId)[1] # status_update
    /\ log_result.op = "append_fix_status"

\* C4: on any log, append_issue of an otherwise valid issue whose issue_id is
\* that of an entry anywhere in the log raises IssueValidationError and leaves
\* the file as it was.
C4_DuplicateAnywhereIsRejected ==
    [][(OtherwiseValidAppend /\ log_exists
            /\ log_result'.issue_id \in EntryIds(log_content))
        => (/\ log_result'.exc = "IssueValidationError"
            /\ log_content' = log_content)]_vars

\* C5: when validate_issue raises, append_issue writes nothing: the log and
\* its directory are neither created nor modified, and the exception leaves
\* append_issue.
C5_NoWriteWhenValidationRaises ==
    [][(log_result'.op \in Appenders /\ log_result'.exc # "none")
        => (/\ log_content' = log_content
            /\ log_exists' = log_exists
            /\ dir_exists' = dir_exists)]_vars

\* A rejected append_issue with neither the log nor its directory there.
C5_Witness ==
    /\ log_result.op = "append_issue"
    /\ log_result.exc = "IssueValidationError"
    /\ ~log_exists
    /\ ~dir_exists

\* C6: every step of the writers keeps the prior content of the log as an
\* exact prefix of the new content, and never removes the file.
C6_PriorContentIsPrefix ==
    [][/\ IsPrefix(log_content, log_content')
       /\ log_exists => log_exists']_vars

\* Each of the two writers has appended to a log that held lines before.
C6_Witness ==
    /\ log_result.op = "append_fix_status"
    /\ log_content[1] = GarbageText
    /\ Len(Entries(log_content)) = 2
    /\ Get(Entries(log_content)[1], "issue_id").s = OtherId
    /\ Entries(log_content)[2] = status_update

\* C9 as stated: append_issue of an otherwise valid entry whose issue_id is
\* already in the log succeeds and appends a line, whatever the statuses.
C9_AnyStatusFollowsAnyOther ==
    [][(OtherwiseValidAppend /\ log_exists
            /\ log_result'.issue_id \in EntryIds(log_content))
        => (log_result'.exc = "none" /\ AppendedOneLine)]_vars

\* The duplicate scan meets an entry with this issue_id: an object line that
\* carries it, with no JSON value that is not an object on a line before it.
ScanMeets(content, id) ==
    LET lines == FileLines(content)
    IN  \E i \in 1..Len(lines) :
            /\ ParseLine(lines[i]).k = "object"
            /\ Get(ParseLine(lines[i]).v, "issue_id").s = id
            /\ \A j \in 1..(i - 1) : ParseLine(lines[j]).k # "value"

\* C9 amended: append_issue compares no status. An otherwise valid entry is
\* rejected exactly when the duplicate scan meets its issue_id, whatever its
\* status and the statuses in the log, and is appended as one line otherwise:
\* it cannot record a second status for an issue_id the scan meets.
C9_StatusPlaysNoPartInAcceptance ==
    [][OtherwiseValidAppend
        => IF log_exists /\ ScanMeets(log_content, log_result'.issue_id)
           THEN /\ log_result'.exc = "IssueValidationError"
                /\ log_content' = log_content
           ELSE /\ log_result'.exc = "none"
                /\ log_result'.status \in VALID_STATUSES
                /\ AppendedOneLine]_vars

\* A CLOSED entry was rejected for an issue_id the log holds as NEW.
C9_Witness ==
    /\ log_result.op = "append_issue"
    /\ log_result.check = "duplicate"
    /\ log_result.status = "CLOSED"
    /\ \E i \in 1..Len(Entries(log_content)) :
            /\ Get(Entries(log_content)[i], "issue_id").s = log_result.issue_id
            /\ Get(Entries(log_content)[i], "status").s = "NEW"

\* C10: every status update append_fix_status.main appends is for an issue_id
\* that has an entry in the log already, and the status of the latest of
\* these entries is the update's previous_status.
C10_StatusUpdateFollowsItsIssue ==
    [][log_result'.op = "append_fix_status"
        => LET earlier == EntriesOf(log_content, log_result'.issue_id)
           IN  /\ earlier # <<>>
               /\ Get(earlier[Len(earlier)], "status")
                      = status_update["previous_status"]]_vars

\* ================================================================== validate_issue as a function

\* The marker of a field the issue does not have.
Missing == [t |-> "-", s |-> "", n |-> 0, items |-> <<>>]

Dev(f, v) == [f |-> f, v |-> v]

\* What one field of an issue may hold instead of the value of the issue
\* log_login_bug_fix.py builds: values on both sides of every check.
Deviations ==
    {Dev(f, Missing) : f \in {"issue_id", "status", "fix_summary"}}
    \cup {Dev("issue_id", PyInt(1)), Dev("title", PyNone),
          Dev("attempts", Text("NEW")), Dev("attempts", PyBool(TRUE)),
          Dev("blocked_by", Text(OtherId))}
    \cup {Dev("issue_id", Text(u)) : u \in UuidTexts \ {FixId}}
    \cup {Dev("timestamp_utc", Text(ts)) : ts \in TimestampTexts}
    \cup {Dev("repo", Text("credentialmate-docs")), Dev("repo", Text("other-repo"))}
    \cup {Dev("severity", Text(x)) : x \in {"HIGH", "URGENT", "critical"}}
    \cup {Dev("type", Text(x)) : x \in {"security", "feature"}}
    \cup {Dev("status", Text(x)) : x \in VALID_STATUSES \cup {"REGRESSION", "new"}}
    \cup {Dev("title", PyStr("title", n)) : n \in {9, 10, 200, 201}}
    \cup {Dev("description", PyStr("description", n)) : n \in {19, 20}}
    \cup {Dev("repro", PyStr("repro", n)) : n \in {9, 10}}
    \cup {Dev("root_cause_guess", PyStr("root_cause_guess", n)) : n \in {9, 10}}
    \cup {Dev("attempts", PyInt(n)) : n \in {-1, 1}}
    \cup {Dev(f, PyList(xs)) :
            f \in {"blocked_by", "depends_on"},
            xs \in { <<Text(OtherId)>>, <<Text("not-a-uuid")>>, <<PyInt(1)>>,
                     <<PyNone>>, <<Text(OtherId), PyNone>> }}
    \cup {Dev("fix_location", PyStr("fix_location", 26)),
          Dev("agent", PyStr("", 0))}

\* The sets of at most n deviations, one per field.
RECURSIVE DeviationSets(_)
DeviationSets(n) ==
    IF n = 0 THEN {{}}
    ELSE LET P == DeviationSets(n - 1)
         IN  P \cup {T \in {S \cup {d} : S \in P, d \in Deviations} :
                        \A x, y \in T : x.f = y.f => x = y}

\* The issue b with the fields of S replaced, added or removed.
Deviate(b, S) ==
    LET gone == {d.f : d \in {x \in S : x.v = Missing}}
    IN  [f \in (DOMAIN b \cup {d.f : d \in S}) \ gone |->
            IF \E d \in S : d.f = f THEN (CHOOSE d \in S : d.f = f).v ELSE b[f]]

\* The issues validate_issue is called with.
ValidateIssues ==
    {Deviate(LoginBugIssue(FixId), S) : S \in DeviationSets(MaxDeviations)}

\* The logs validate_issue is called on: an empty file, the header and an entry
\* for FixId or for OtherId, and an entry for FixId after a line of text that
\* is no JSON or of JSON that is no object.
ValidateLogs ==
    { <<>>,
      ISSUES_LOG_HEADER \o <<json_dump(LoginBugIssue(FixId)), NL>>,
      ISSUES_LOG_HEADER \o <<json_dump(LoginBugIssue(OtherId)), NL>>,
      <<GarbageText, NL, json_dump(LoginBugIssue(FixId)), NL>>,
      <<json_dump(PyList(<<>>)), NL, json_dump(LoginBugIssue(FixId)), NL>> }

\* A call of validate_issue that has not run yet.
ValidateCall(issue) ==
    [op |-> "call validate_issue", issue |-> issue,
     issue_id |-> GetOr(issue, "issue_id", Text("-")).s,
     status |-> GetOr(issue, "status", Text("-")).s,
     exc |-> "none", check |-> "-"]

\* How the call ended: LogResult with the issue itself.
ValidateResult(issue, r) ==
    [ValidateCall(issue) EXCEPT !.op = "validate_issue", !.exc = r.exc,
                                !.check = r.check]

\* IssueAppender(log_path).validate_issue(issue): reads the log, writes nothing.
DoValidateIssue ==
    /\ log_result.op = "call validate_issue"
    /\ log_result' = ValidateResult(log_result.issue,
                        validate_issue(log_result.issue, log_exists, log_content))
    /\ UNCHANGED <<dir_exists, log_exists, log_content, dbVars, batchVars, calls>>

\* Any of the logs, or none, and any of the issues.
InitValidate ==
    /\ DbIdle
    /\ BatchIdle
    /\ log_exists \in BOOLEAN
    /\ dir_exists = log_exists
    /\ log_content \in IF log_exists THEN ValidateLogs ELSE {<<>>}
    /\ log_result \in {ValidateCall(issue) : issue \in ValidateIssues}
    /\ calls = NoCalls

NextValidate == DoValidateIssue

SpecValidate == InitValidate /\ [][NextValidate]_vars

Validated == log_result.op = "validate_issue"

\* C11: validate_issue accepts an otherwise valid issue exactly when its status
\* is one of NEW, TRIAGED, IN_PROGRESS, FIXED, WONTFIX, VERIFIED, CLOSED and
\* REGRESSION.
C11_LifecycleStatusesAccepted ==
    (/\ Validated
     /\ "status" \in DOMAIN log_result.issue
     /\ log_result.issue["status"].t = "str"
     /\ validate_issue([log_result.issue EXCEPT !["status"] = Text("NEW")],
                       log_exists, log_content) = Returned)
        => ((log_result.exc = "none")
                <=> log_result.status \in
                        {"NEW", "TRIAGED", "IN_PROGRESS", "FIXED", "WONTFIX",
                         "VERIFIED", "CLOSED", "REGRESSION"})

\* The lines of ISSUES_LOG_HEADER.
HeaderLines == FileLines(ISSUES_LOG_HEADER)

\* The object has every required field and its enum fields hold valid values.
SatisfiesSchema(entry) ==
    /\ RequiredNames \subseteq DOMAIN entry
    /\ entry["repo"].s \in VALID_REPOS
    /\ entry["severity"].s \in VALID_SEVERITIES
    /\ entry["type"].s \in VALID_TYPES
    /\ entry["status"].s \in VALID_STATUSES

\* C12: whenever the log exists, it starts with the header block, the header
\* is there once, and every later line that is not blank is one JSON object
\* that satisfies the schema of IssueAppender.
C12_HeaderOnceThenSchemaEntries ==
    log_exists =>
        LET lines == FileLines(log_content)
        IN  /\ IsPrefix(ISSUES_LOG_HEADER, log_content)
            /\ \A i \in (Len(HeaderLines) + 1)..Len(lines) :
                    \/ strip(lines[i]) = <<>>
                    \/ /\ ParseLine(lines[i]).k = "object"
                       /\ SatisfiesSchema(ParseLine(lines[i]).v)

\* ================================================================== readers

\* What a reader ended in: the value it returned, or the exception that left it.
ReadResult(op, exc, value) == [op |-> op, exc |-> exc, value |-> value]

\* entry.get("status") == "NEW"
IsNew(entry) == Get(entry, "status").t = "str" /\ Get(entry, "status").s = "NEW"

\* check_new_issues(): the loop over the lines. json.loads of a line that is
\* JSON but no object gives a value without .get: AttributeError, which only
\* except json.JSONDecodeError stands against.
check_new_issues(exists, content) ==
    LET lines == FileLines(content)
        RECURSIVE Loop(_, _)
        Loop(i, new_issues) ==
            IF i > Len(lines) THEN [exc |-> "none", value |-> new_issues]
            ELSE LET p == ParseLine(lines[i])
                 IN  CASE p.k = "value" ->
                            [exc |-> "AttributeError", value |-> <<>>]
                       [] p.k = "object" ->
                            Loop(i + 1, IF IsNew(p.v) THEN Append(new_issues, p.v)
                                        ELSE new_issues)
                       [] OTHER -> Loop(i + 1, new_issues)
    IN  IF ~exists THEN [exc |-> "none", value |-> <<>>] ELSE Loop(1, <<>>)

EmptySummary ==
    [total_issues |-> 0, by_status |-> <<>>, by_severity |-> <<>>,
     by_repo |-> <<>>, by_type |-> <<>>, new_count |-> 0]

\* d[key] = d.get(key, 0) + 1, a dict being a function from its keys.
Incremented(d, key) ==
    [k \in DOMAIN d \cup {key} |->
        IF k = key THEN (IF key \in DOMAIN d THEN d[key] ELSE 0) + 1 ELSE d[k]]

\* entry.get(field, "UNKNOWN") as a dict key: the text of a str; a list is
\* unhashable (TypeError).
SummaryKey(entry, field) ==
    LET v == GetOr(entry, field, PyStr("UNKNOWN", 7))
    IN  IF v.t = "list" THEN "TypeError" ELSE v.s

\* The body of the loop of get_issue_summary for one JSON object.
Counted(summary, entry) ==
    [total_issues |-> summary.total_issues + 1,
     by_status |-> Incremented(summary.by_status, SummaryKey(entry, "status")),
     by_severity |-> Incremented(summary.by_severity, SummaryKey(entry, "severity")),
     by_repo |-> Incremented(summary.by_repo, SummaryKey(entry, "repo")),
     by_type |-> Incremented(summary.by_type, SummaryKey(entry, "type")),
     new_count |-> summary.new_count + (IF IsNew(entry) THEN 1 ELSE 0)]

\* get_issue_summary()
get_issue_summary(exists, content) ==
    LET lines == FileLines(content)
        RECURSIVE Loop(_, _)
        Loop(i, summary) ==
            IF i > Len(lines) THEN [exc |-> "none", value |-> summary]
            ELSE LET p == ParseLine(lines[i])
                 IN  CASE p.k = "value" ->
                            [exc |-> "AttributeError", value |-> EmptySummary]
                       [] p.k = "object" ->
                            IF \E f \in {"status", "severity", "repo", "type"} :
                                    SummaryKey(p.v, f) = "TypeError"
                            THEN [exc |-> "TypeError", value |-> EmptySummary]
                            ELSE Loop(i + 1, Counted(summary, p.v))
                       [] OTHER -> Loop(i + 1, summary)
    IN  IF ~exists THEN [exc |-> "none", value |-> EmptySummary]
        ELSE Loop(1, EmptySummary)

\* generate_dashboard_report.py, the loader: every line that is not blank goes
\* to json.loads, the comment lines of the header too, and nothing catches
\* json.JSONDecodeError; open() of a missing file raises.
load_dashboard_issues(exists, content) ==
    LET lines == FileLines(content)
        RECURSIVE Loop(_, _)
        Loop(i, issues) ==
            IF i > Len(lines) THEN [exc |-> "none", value |-> issues]
            ELSE LET l == strip(lines[i])
                 IN  IF l = <<>> THEN Loop(i + 1, issues)
                     ELSE IF Len(l) = 1 /\ l[1].c \in {"object", "value"}
                          THEN Loop(i + 1, Append(issues, l[1].v))
                          ELSE [exc |-> "JSONDecodeError", value |-> <<>>]
    IN  IF ~exists THEN [exc |-> "FileNotFoundError", value |-> <<>>]
        ELSE Loop(1, <<>>)

\* The lines the duplicate scan of validate_issue looks at before it ends.
RECURSIVE ScannedLines(_, _, _)
ScannedLines(lines, i, issue_id) ==
    IF i > Len(lines) THEN {}
    ELSE IF ScanStep(ParseLine(lines[i]), issue_id) = "next"
         THEN {i} \cup ScannedLines(lines, i + 1, issue_id)
         ELSE {i}

DoCheckNewIssues ==
    /\ LET r == check_new_issues(log_exists, log_content)
       IN  log_result' = ReadResult("check_new_issues", r.exc, r.value)
    /\ UNCHANGED <<dir_exists, log_exists, log_content, dbVars, batchVars, calls>>

DoGetIssueSummary ==
    /\ LET r == get_issue_summary(log_exists, log_content)
       IN  log_result' = ReadResult("get_issue_summary", r.exc, r.value)
    /\ UNCHANGED <<dir_exists, log_exists, log_content, dbVars, batchVars, calls>>

DoDashboardReport ==
    /\ LET r == load_dashboard_issues(log_exists, log_content)
       IN  log_result' = ReadResult("generate_dashboard_report", r.exc, r.value)
    /\ UNCHANGED <<dir_exists, log_exists, log_content, dbVars, batchVars, calls>>

\* validate_issue of a valid issue: only its duplicate scan can raise. The
\* value is the result of the scan and the lines it looked at.
DoDuplicateScan ==
    /\ \E uuid4 \in Uuid4s :
        LET r == validate_issue(LoginBugIssue(uuid4), log_exists, log_content)
        IN  log_result' =
                ReadResult("duplicate_scan", r.exc,
                    [issue_id |-> uuid4,
                     scanned |-> IF log_exists
                                 THEN ScannedLines(FileLines(log_content), 1,
                                                   Text(uuid4))
                                 ELSE {}])
    /\ UNCHANGED <<dir_exists, log_exists, log_content, dbVars, batchVars, calls>>

NextReaders ==
    \/ DoCheckNewIssues
    \/ DoGetIssueSummary
    \/ DoDashboardReport
    \/ DoDuplicateScan

\* The readers on any log.
SpecReaders == InitAnyLog /\ [][NextReaders]_vars

\* C13: on any log every reader returns, and what it returns is what the
\* lines that are JSON objects give: the other lines are skipped and no line
\* after them is left out.
C13_ReadersSkipWhatIsNoEntry ==
    LET entries == Entries(log_content)
        lines == FileLines(log_content)
    IN  /\ log_result.op = "check_new_issues" =>
                /\ log_result.exc = "none"
                /\ log_result.value = SelectSeq(entries, IsNew)
        /\ log_result.op = "get_issue_summary" =>
                /\ log_result.exc = "none"
                /\ log_result.value.total_issues = Len(entries)
        /\ log_result.op = "generate_dashboard_report" =>
                /\ log_result.exc = "none"
                /\ log_result.value = entries
        /\ log_result.op = "duplicate_scan" =>
                IF log_exists /\ log_result.value.issue_id \in EntryIds(log_content)
                THEN log_result.exc = "IssueValidationError"
                ELSE /\ log_result.exc = "none"
                     /\ log_result.value.scanned = 1..Len(lines)

\* ================================================================== concurrent append_issue

\* The processes that call append_issue on the same log at the same time.
Callers == {1, 2}

\* A call of append_issue about to run: pc is the statement it stands before,
\* found_log what its self.log_path.exists() returned.
Call(issue) ==
    [pc |-> "validate_issue", issue |-> issue, exc |-> "none",
     found_log |-> FALSE]

\* self.validate_issue(issue): reads the log as it is now.
Validate(p) ==
    /\ calls[p].pc = "validate_issue"
    /\ LET r == validate_issue(calls[p].issue, log_exists, log_content)
       IN  calls' = [calls EXCEPT ![p].exc = r.exc,
                                  ![p].pc = IF r.exc = "none" THEN "exists"
                                            ELSE "raised"]
    /\ UNCHANGED <<dir_exists, log_exists, log_content, log_result, dbVars, batchVars>>

\* if not self.log_path.exists():
Exists(p) ==
    /\ calls[p].pc = "exists"
    /\ calls' = [calls EXCEPT ![p].found_log = log_exists,
                              ![p].pc = IF log_exists THEN "append" ELSE "header"]
    /\ UNCHANGED <<dir_exists, log_exists, log_content, log_result, dbVars, batchVars>>

\* mkdir(parents=True, exist_ok=True); open(self.log_path, "w") truncates the
\* file if another call has made it meanwhile; f.write(ISSUES_LOG_HEADER).
Header(p) ==
    /\ calls[p].pc = "header"
    /\ dir_exists' = TRUE
    /\ log_exists' = TRUE
    /\ log_content' = write("w", log_content, ISSUES_LOG_HEADER)
    /\ calls' = [calls EXCEPT ![p].pc = "append"]
    /\ UNCHANGED <<log_result, dbVars, batchVars>>

\* open(self.log_path, "a"); json.dump; f.write("\n"): one buffered write at
\* the end of the file.
AppendLine(p) ==
    /\ calls[p].pc = "append"
    /\ log_exists' = TRUE
    /\ log_content' = write(open_mode_a, log_content,
                            <<json_dump(calls[p].issue), NL>>)
    /\ calls' = [calls EXCEPT ![p].pc = "returned"]
    /\ UNCHANGED <<dir_exists, log_result, dbVars, batchVars>>

\* Two calls with valid issues, on a log that is missing or holds the header.
InitConcurrent ==
    /\ DbIdle
    /\ BatchIdle
    /\ dir_exists \in BOOLEAN
    /\ log_exists \in BOOLEAN
    /\ log_exists => dir_exists
    /\ log_content = IF log_exists THEN ISSUES_LOG_HEADER ELSE <<>>
    /\ log_result = NoLogResult
    /\ calls \in [Callers -> {Call(IssueWith(id, st)) :
                                id \in Uuid4s, st \in {"NEW", "CLOSED"}}]

DoValidate == \E p \in Callers : Validate(p)
DoExists == \E p \in Callers : Exists(p)
DoHeader == \E p \in Callers : Header(p)
DoAppendLine == \E p \in Callers : AppendLine(p)

NextConcurrent ==
    \/ DoValidate
    \/ DoExists
    \/ DoHeader
    \/ DoAppendLine

SpecConcurrent == InitConcurrent /\ [][NextConcurrent]_vars

\* Both calls carry the same issue_id, both passed validate_issue and
\* returned, and both found the log there.
BothPassedSameId ==
    /\ \A p \in Callers : /\ calls[p].pc = "returned"
                          /\ calls[p].exc = "none"
                          /\ calls[p].found_log
    /\ calls[1].issue["issue_id"] = calls[2].issue["issue_id"]

\* C14: nothing makes validation and write of append_issue atomic. A call that
\* passed the duplicate check appends whatever was written since: when two
\* concurrent calls with the same issue_id have both passed and returned on an
\* existing log, the log holds two entries with that issue_id.
C14_BothPassBothAppend ==
    BothPassedSameId
        => Len(EntriesOf(log_content, calls[1].issue["issue_id"].s)) = 2

\* Two concurrent calls left two entries with the same issue_id.
C14_Witness ==
    /\ BothPassedSameId
    /\ Len(EntriesOf(log_content, calls[1].issue["issue_id"].s)) = 2
    /\ Len(Entries(log_content)) = 2

\* ================================================================== line count

\* The number of lines of a file: what "for line in f" goes through.
LineCount(content) == Len(FileLines(content))

\* The number of newline characters of a file.
NewlineCount(content) ==
    Cardinality({i \in 1..Len(content) : content[i] = NL})

\* C15 as stated: every successful append_issue makes the log one line longer,
\* whatever the log was, a missing log included.
C15_OneMoreLine ==
    [][(log_result'.op \in Appenders /\ log_result'.exc = "none")
        => LineCount(log_content') = LineCount(log_content) + 1]_vars

\* C15 amended: a successful append_issue on an existing log adds the entry
\* and one newline at the end: one more line when the log was empty or ended
\* in a newline, and no more lines when its last line had none, the entry
\* then continuing that line. On a missing log it writes the ten lines of the
\* header and then the entry: eleven lines.
C15_OneMoreNewline ==
    [][(log_result'.op \in Appenders /\ log_result'.exc = "none")
        => /\ AppendedOneLine
           /\ IF log_exists
              THEN /\ NewlineCount(log_content') = NewlineCount(log_content) + 1
                   /\ LineCount(log_content') =
                        LineCount(log_content)
                            + (IF log_content = <<>>
                                    \/ log_content[Len(log_content)] = NL
                               THEN 1 ELSE 0)
              ELSE LineCount(log_content') = 10 + 1]_vars

\* append_issue has made the log: the header and one entry.
C15_Witness ==
    /\ log_result.op = "append_issue"
    /\ log_result.exc = "none"
    /\ LineCount(log_content) = 10 + 1
    /\ IsPrefix(ISSUES_LOG_HEADER, log_content)

\* ================================================================== the constraints on an issue

\* The field is there and has the type REQUIRED_FIELDS asks for.
WellTyped(issue, field) ==
    /\ field \in DOMAIN issue
    /\ \E i \in 1..Len(REQUIRED_FIELDS) :
            /\ REQUIRED_FIELDS[i][1] = field
            /\ isinstance(issue[field], REQUIRED_FIELDS[i][2])

\* A canonical UUID4 string.
IsUuid4(v) == v.t = "str" /\ v.s \in Uuid4s

\* The constraints in the order validate_issue checks them.
CheckOrder ==
    <<"missing">>
        \o [i \in 1..Len(REQUIRED_FIELDS) |-> MustBe(REQUIRED_FIELDS[i][1])]
        \o <<"uuid4", "timestamp", "repo", "severity", "type", "status",
             "title", "description", "repro", "root_cause_guess", "attempts",
             "blocked_by", "depends_on", "duplicate">>

\* The issue violates the constraint, on the log as it is. A constraint on the
\* value of a field is violated only by a field that is there with its type.
Violates(issue, c) ==
    CASE c = "missing" -> RequiredNames \ DOMAIN issue # {}
      [] c = "uuid4" ->
            WellTyped(issue, "issue_id") /\ ~IsUuid4(issue["issue_id"])
      [] c = "timestamp" ->
            /\ WellTyped(issue, "timestamp_utc")
            /\ issue["timestamp_utc"].s \notin
                    {"2025-11-16T16:30:00Z", "2025-11-16T16:30:00.123456Z",
                     "2025-11-16Z", "2025-11-16T16:30:00+05:00Z"}
      [] c = "repo" ->
            WellTyped(issue, "repo") /\ issue["repo"].s \notin VALID_REPOS
      [] c = "severity" ->
            /\ WellTyped(issue, "severity")
            /\ issue["severity"].s \notin {"CRITICAL", "HIGH", "MEDIUM", "LOW"}
      [] c = "type" ->
            WellTyped(issue, "type") /\ issue["type"].s \notin VALID_TYPES
      [] c = "status" ->
            WellTyped(issue, "status") /\ issue["status"].s \notin VALID_STATUSES
      [] c = "title" ->
            /\ WellTyped(issue, "title")
            /\ (issue["title"].n < 10 \/ issue["title"].n > 200)
      [] c = "description" ->
            WellTyped(issue, "description") /\ issue["description"].n < 20
      [] c = "repro" -> WellTyped(issue, "repro") /\ issue["repro"].n < 10
      [] c = "root_cause_guess" ->
            WellTyped(issue, "root_cause_guess")
                /\ issue["root_cause_guess"].n < 10
      [] c = "attempts" ->
            WellTyped(issue, "attempts") /\ issue["attempts"].n < 0
      [] c \in {"blocked_by", "depends_on"} ->
            /\ WellTyped(issue, c)
            /\ \E i \in 1..Len(issue[c].items) : ~IsUuid4(issue[c].items[i])
      [] c = "duplicate" ->
            /\ WellTyped(issue, "issue_id")
            /\ log_exists
            /\ issue["issue_id"].s \in EntryIds(log_content)
      [] OTHER ->
            \E f \in DOMAIN issue \cap RequiredNames :
                c = MustBe(f) /\ ~WellTyped(issue, f)

\* The positions in CheckOrder of the constraints the issue violates.
Violated(issue) ==
    {i \in 1..Len(CheckOrder) : Violates(issue, CheckOrder[i])}

\* C16: validate_issue raises IssueValidationError for every issue whose
\* issue_id is not a canonical UUID4 string, whose severity is not one of
\* CRITICAL, HIGH, MEDIUM and LOW, whose title has fewer than 10 characters,
\* or whose issue_id an entry of the log carries.
C16_RejectsTheFourCases ==
    (/\ Validated
     /\ \/ "issue_id" \in DOMAIN log_result.issue
                /\ ~IsUuid4(log_result.issue["issue_id"])
        \/ Violates(log_result.issue, "severity")
        \/ WellTyped(log_result.issue, "title")
                /\ log_result.issue["title"].n < 10
        \/ Violates(log_result.issue, "duplicate"))
        => log_result.exc = "IssueValidationError"

\* C17: when an issue violates constraints, validate_issue raises an
\* IssueValidationError, and it is the one of the first constraint, in the
\* order of the checks, that the issue violates.
C17_FirstViolatedConstraint ==
    (Validated /\ Violated(log_result.issue) # {})
        => /\ log_result.exc = "IssueValidationError"
           /\ log_result.check = CheckOrder[Min(Violated(log_result.issue))]

\* ================================================================== the audit store: append and query

Col(name, nullable, server_default) ==
    [name |-> name, nullable |-> nullable, server_default |-> server_default]

\* The columns of the audited tables: create_table of 20251111_200000 and
\* 20251111_200050, audit_logs as f855a1bf370b leaves it when hipaa. The
\* nullable columns without a default are represented by one of them.
Columns(t) ==
    CASE t = "audit_logs" /\ ~hipaa ->
            { Col("id", FALSE, "none"), Col("actor_id", FALSE, "none"),
              Col("event_type", FALSE, "none"), Col("target_table", TRUE, "none"),
              Col("created_at", FALSE, "now()") }
      [] t = "audit_logs" /\ hipaa ->
            { Col("id", FALSE, "none"), Col("user_id", TRUE, "none"),
              Col("action_type", FALSE, "none"),
              Col("resource_type", TRUE, "none"),
              Col("timestamp", FALSE, "now()"),
              Col("phi_accessed", FALSE, "false"),
              Col("status", TRUE, "success") }
      [] t = "change_events" ->
            { Col("event_id", FALSE, "none"), Col("aggregate_type", FALSE, "none"),
              Col("aggregate_id", FALSE, "none"), Col("event_seq", FALSE, "none"),
              Col("event_type", FALSE, "none"), Col("event_payload", FALSE, "none"),
              Col("actor_id", TRUE, "none"), Col("created_at", FALSE, "now()") }
      [] OTHER ->
            { Col("event_id", FALSE, "none"), Col("user_id", FALSE, "none"),
              Col("username", TRUE, "none"), Col("timestamp", FALSE, "none"),
              Col("payload_encrypted", FALSE, "none"),
              Col("integrity_hash", FALSE, "none"),
              Col("created_at", FALSE, "now()") }

ColumnNames(t) == {c.name : c \in Columns(t)}

\* The points in time of the model.
Times == {1, 2}

\* A value for each column of a record that carries them all.
FullRecord(t, id) ==
    [c \in ColumnNames(t) |->
        CASE c \in {"id", "event_id"} -> id
          [] c \in {"actor_id", "user_id"} -> "u1"
          [] c \in {"event_type", "action_type"} -> "LOGIN"
          [] c \in {"target_table", "resource_type", "aggregate_type"} -> "license"
          [] c \in {"created_at", "timestamp"} -> 1
          [] c = "phi_accessed" -> TRUE
          [] c = "status" -> "denied"
          [] c = "aggregate_id" -> "agg1"
          [] c = "event_seq" -> 1
          [] c = "event_payload" -> "{}"
          [] c = "username" -> "user"
          [] c = "payload_encrypted" -> "bytes"
          [] c = "integrity_hash" -> "h0"]

\* What the server puts in a column the INSERT does not name.
DefaultValue(c, now) ==
    CASE c.server_default = "now()" -> now
      [] c.server_default = "false" -> FALSE
      [] c.server_default = "success" -> "success"
      [] OTHER -> NULL

\* The row INSERT INTO t (<the columns of record>) VALUES (...) builds.
StoredRow(t, record, now) ==
    [n \in ColumnNames(t) |->
        IF n \in DOMAIN record THEN record[n]
        ELSE DefaultValue(CHOOSE c \in Columns(t) : c.name = n, now)]

\* A column of the row is NULL when the INSERT does not name it and the
\* server has no default for it.
IsNull(t, record, n) ==
    /\ n \notin DOMAIN record
    /\ \E c \in Columns(t) : c.name = n /\ c.server_default = "none"

AppendResult(t, absent, outcome) ==
    [op |-> "append", table |-> t, matched |-> FALSE, outcome |-> outcome,
     absent |-> absent]

\* Appending a record: INSERT of the columns the record carries, at time now.
append(t, record, now) ==
    LET row == StoredRow(t, record, now)
        outcome ==
            IF \E c \in Columns(t) : ~c.nullable /\ IsNull(t, record, c.name)
            THEN "not_null_violation"
            ELSE IF UniqueViolation(t, row, rows[t])
                 THEN UniqueError(t, row, rows[t])
            ELSE "ok"
    IN  /\ outcome = "ok" => TotalRows < MaxStored
        /\ rows' = IF outcome = "ok" THEN [rows EXCEPT ![t] = @ \cup {row}]
                   ELSE rows
        /\ db_result' = AppendResult(t, ColumnNames(t) \ DOMAIN record, outcome)
        /\ UNCHANGED <<revision, tables, triggers, unique_index, hipaa>>
        /\ UNCHANGED <<logVars, batchVars>>

\* The records the model appends: all columns, all but one, or all but the
\* timestamps; the primary key is always there (default=uuid.uuid4 on the
\* client side).
AppendRecords(t) ==
    {[n \in ColumnNames(t) \ gone |-> FullRecord(t, id)[n]] :
        id \in Ids,
        gone \in {{}, ColumnNames(t) \cap {"timestamp", "created_at"}}
                    \cup {{n} : n \in ColumnNames(t) \ {"id", "event_id"}}}

DoAppend ==
    \E t \in AuditTables : \E record \in AppendRecords(t) : \E now \in Times :
        append(t, record, now)

\* Optional[datetime] = None: no value, or one.
None == <<>>
Optional(S) == {None} \cup {<<x>> : x \in S}

QueryResult(args, outcome, returned) ==
    [op |-> "query_audit_logs", table |-> "audit_logs", matched |-> FALSE,
     outcome |-> outcome, args |-> args, returned |-> returned]

\* GET /api/v2/audit/logs: query_audit_logs. Whatever the filters, the handler
\* ends in an HTTPException: 403, 400, or 501 where the query would be.
query_audit_logs(role, start_time, end_time, user_id) ==
    LET outcome ==
            IF role \notin {"admin", "superadmin"} THEN "403"
            ELSE IF start_time # None /\ end_time # None
                    /\ start_time[1] > end_time[1]
                 THEN "400"
            ELSE "501"
    IN  /\ db_result' = QueryResult([role |-> role, start_time |-> start_time,
                                     end_time |-> end_time, user_id |-> user_id],
                                    outcome, {})
        /\ UNCHANGED <<revision, tables, triggers, unique_index, hipaa, rows>>
        /\ UNCHANGED <<logVars, batchVars>>

DoQueryAuditLogs ==
    \E role \in {"admin", "provider"} :
    \E start_time \in Optional(Times) : \E end_time \in Optional(Times) :
    \E user_id \in {"u1", NULL} :
        query_audit_logs(role, start_time, end_time, user_id)

\* The schema of 8c414c598b42 or of head, no rows.
InitAuditStore ==
    /\ hipaa \in BOOLEAN
    /\ revision = IF hipaa THEN Len(Chain) ELSE RevIdx("8c414c598b42")
    /\ tables = AllTables
    /\ triggers = prevent_update_triggers
    /\ unique_index = ix_change_events_aggregate_unique
    /\ rows = NoRows
    /\ db_result = DbResult("init", "-", FALSE, "ok")
    /\ LogIdle
    /\ BatchIdle

NextAuditStore ==
    \/ DoAppend
    \/ DoQueryAuditLogs

SpecAuditStore == InitAuditStore /\ [][NextAuditStore]_vars

\* The audit_logs rows a query with these filters is to return.
Selected(args) ==
    LET ts == IF hipaa THEN "timestamp" ELSE "created_at"
        user == IF hipaa THEN "user_id" ELSE "actor_id"
    IN  {r \in rows["audit_logs"] :
            /\ args.start_time # None => r[ts] >= args.start_time[1]
            /\ args.end_time # None => r[ts] <= args.end_time[1]
            /\ args.user_id # NULL => r[user] = args.user_id}

\* C18: after a record was appended to audit_logs, a query by an admin with a
\* valid time range returns every stored record its filters select, each
\* with the fields it was appended with.
C18_QueryReturnsAppendedRecords ==
    (/\ db_result.op = "query_audit_logs"
     /\ db_result.args.role = "admin"
     /\ db_result.outcome # "400")
        => Selected(db_result.args) \subseteq db_result.returned

\* The timestamp columns of a table, and the columns a record must carry
\* besides.
TimestampColumns == {"timestamp", "created_at"}

\* C19: on each of the three tables, appending a record that lacks only its
\* timestamp columns succeeds and stores a row with these columns filled in,
\* and appending a record that lacks another column that is NOT NULL without
\* a default is rejected and leaves the table as it was.
C19_TimestampAssignedOthersRequired ==
    [][db_result'.op = "append" =>
        LET t == db_result'.table
            absent == db_result'.absent
            required == {c.name : c \in {x \in Columns(t) :
                            ~x.nullable /\ x.server_default = "none"}}
                        \ TimestampColumns
        IN  /\ (absent # {} /\ absent \subseteq TimestampColumns
                    /\ db_result'.outcome # "unique_violation:pkey"
                    /\ db_result'.outcome
                            # "unique_violation:ix_change_events_aggregate")
                => /\ db_result'.outcome = "ok"
                   /\ \E r \in rows'[t] \ rows[t] :
                        \A c \in TimestampColumns \cap ColumnNames(t) : r[c] \in Times
            /\ absent \cap required # {}
                => /\ db_result'.outcome = "not_null_violation"
                   /\ rows' = rows]_vars

\* C20: the integrity_hash values of the stored keystroke_logs records form a
\* chain, each derived from the record before: no two records carry the same
\* hash.
C20_HashChain ==
    \A r1, r2 \in rows["keystroke_logs"] :
        r1 # r2 => r1.integrity_hash # r2.integrity_hash

\* ================================================================== the tables of 20251111_200050

\* Row operations on audit_immutable_index, beside those of SpecDb.
DoInsertIndex ==
    \E r \in ImmutableIndexRows : Insert("audit_immutable_index", r)
DoUpdateIndex ==
    \E id \in Ids : \E v \in Hashes : Update("audit_immutable_index", id, v)
DoDeleteIndex == \E id \in Ids : Delete("audit_immutable_index", id)

NextImmutable ==
    \/ NextDb
    \/ DoInsertIndex
    \/ DoUpdateIndex
    \/ DoDeleteIndex

SpecImmutable == InitDb /\ [][NextImmutable]_vars

\* C21: at head, an UPDATE or DELETE whose target is an existing row of
\* keystroke_logs, change_events or audit_immutable_index is rejected and
\* changes no row.
C21_AppendOnlyAtHead ==
    [][ (revision = Len(Chain) /\ db_result'.op \in {"update", "delete"}
            /\ db_result'.table \in ImmutableTables /\ db_result'.matched) =>
            (db_result'.outcome = "immutable" /\ rows' = rows) ]_vars

\* ================================================================== rollback of f855a1bf370b

\* C22: from every state reached after the upgrade of f855a1bf370b its
\* downgrade succeeds, audit_logs has its original columns again with
\* actor_id NOT NULL, and every row keeps the values of its original columns.
C22_DowngradeRestoresSchemaAndRows ==
    [][ (revision = RevIdx("f855a1bf370b") /\ db_result'.op = "downgrade") =>
            /\ db_result'.outcome = "ok"
            /\ revision' = RevIdx("8c414c598b42")
            /\ ~hipaa'
            /\ rows'["audit_logs"] =
                    {[id |-> r.id, actor_id |-> r.user_id,
                      event_type |-> r.action_type] : r \in rows["audit_logs"]}
            /\ \A r \in rows'["audit_logs"] : r.actor_id # NULL ]_vars

\* ================================================================== create_issue and append_issue

\* datetime.utcnow().isoformat() + "Z" has the microseconds, or lacks them
\* when they are 0.
\* Arguments of create_issue at the bounds validate_issue sets, each with the
\* time of its call: the shortest texts with the lists left out, the longest
\* title with lists of UUID4 strings, and empty lists with an empty agent.
CreateArgs ==
    { [repo |-> Text("credentialmate-app"), agent |-> Text("claude-code-bugfix-v1"),
       severity |-> Text("CRITICAL"), issue_type |-> Text("bug"),
       title |-> PyStr("title", 10), description |-> PyStr("description", 20),
       repro |-> PyStr("repro", 10),
       root_cause_guess |-> PyStr("root_cause_guess", 10),
       blocked_by |-> PyNone, depends_on |-> PyNone,
       utcnow |-> "2025-11-16T16:30:00.123456Z"],
      [repo |-> PyStr("credentialmate-docs", 19), agent |-> PyStr("agent", 5),
       severity |-> PyStr("LOW", 3), issue_type |-> PyStr("compliance", 10),
       title |-> PyStr("title", 200), description |-> PyStr("description", 342),
       repro |-> PyStr("repro", 253),
       root_cause_guess |-> PyStr("root_cause_guess", 280),
       blocked_by |-> PyList(<<Text(FixId), Text(OtherId)>>),
       depends_on |-> PyList(<<Text(OtherId)>>),
       utcnow |-> "2025-11-16T16:30:00Z"],
      [repo |-> PyStr("credentialmate-infra", 20), agent |-> PyStr("", 0),
       severity |-> PyStr("HIGH", 4), issue_type |-> PyStr("security", 8),
       title |-> PyStr("title", 65), description |-> PyStr("description", 20),
       repro |-> PyStr("repro", 11),
       root_cause_guess |-> PyStr("root_cause_guess", 11),
       blocked_by |-> PyList(<<>>), depends_on |-> PyList(<<Text(FixId)>>),
       utcnow |-> "2025-11-16T16:30:00.123456Z"] }

\* append_issue(create_issue(...)), as log_login_bug_fix.py and the example
\* of agent_issue_wrapper.py call them.
DoCreateAndAppend ==
    \E uuid4 \in Uuid4s : \E a \in CreateArgs :
        append_issue("create_issue",
            create_issue(Text(uuid4), Text(a.utcnow), a.repo, a.agent, a.severity,
                         a.issue_type, a.title, a.description, a.repro,
                         a.root_cause_guess, a.blocked_by, a.depends_on))

NextCreate == DoCreateAndAppend

\* create_issue and append_issue on any log.
SpecCreate == InitAnyLog /\ [][NextCreate]_vars

\* C23: with valid arguments, on a log that has no entry with the new
\* issue_id, append_issue(create_issue(...)) returns and has put at the end of
\* the log (after the header, when there was no log) one line: an entry with
\* a UUID4 issue_id, status NEW, attempts 0 and an empty fix_summary.
C23_CreatedIssueIsAcceptedAndAppended ==
    [][ (log_result'.op = "create_issue"
            /\ log_result'.issue_id \notin EntryIds(log_content)) =>
            /\ log_result'.exc = "none"
            /\ LET old == IF log_exists THEN log_content ELSE ISSUES_LOG_HEADER
                   e == log_content'[Len(log_content') - 1]
               IN  /\ Len(log_content') = Len(old) + 2
                   /\ SubSeq(log_content', 1, Len(old)) = old
                   /\ log_content'[Len(log_content')] = NL
                   /\ e.c = "object"
                   /\ is_valid_uuid4(e.v["issue_id"]) = "True"
                   /\ e.v["issue_id"].s = log_result'.issue_id
                   /\ e.v["status"] = PyStr("NEW", 3)
                   /\ e.v["attempts"] = PyInt(0)
                   /\ e.v["fix_summary"] = PyStr("", 0)
                   /\ e.v["blocked_by"].t = "list"
                   /\ e.v["depends_on"].t = "list" ]_vars

\* C23 witness: a created issue was just appended behind an entry with
\* another issue_id and a line that is no entry.
C23_Witness ==
    /\ log_result.op = "create_issue"
    /\ log_result.exc = "none"
    /\ Len(Entries(log_content)) = 2
    /\ Cardinality(EntryIds(log_content)) = 2
    /\ DataLines(log_content) = 3

\* ================================================================== the summary of the log

\* Lines of a log whose entries are all JSON objects: a comment, the issue of
\* log_login_bug_fix.py, the status update of append_fix_status.py (no
\* severity, repo or type), an empty object, and an object whose status is a
\* list.
SummaryLines ==
    { <<CommentText>>,
      <<json_dump(LoginBugIssue(FixId))>>,
      <<json_dump(status_update)>>,
      <<json_dump([note |-> PyStr("note", 4)])>>,
      <<json_dump([status |-> PyList(<<Text("NEW")>>)])>> }

\* An existing log of at most MaxLines such lines.
InitSummary ==
    /\ DbIdle
    /\ BatchIdle
    /\ dir_exists = TRUE
    /\ log_exists = TRUE
    /\ log_content \in {Join(ls) : ls \in UNION {[1..n -> SummaryLines] : n \in 0..MaxLines}}
    /\ log_result = NoLogResult
    /\ calls = NoCalls

NextSummary ==
    \/ DoCheckNewIssues
    \/ DoGetIssueSummary

SpecSummary == InitSummary /\ [][NextSummary]_vars

\* The sum of the counts of a by_... dict.
RECURSIVE SumOf(_)
SumOf(d) ==
    IF DOMAIN d = {} THEN 0
    ELSE LET k == CHOOSE x \in DOMAIN d : TRUE
         IN  d[k] + SumOf([x \in DOMAIN d \ {k} |-> d[x]])

EntryLinesAreObjects(content) ==
    \A i \in 1..Len(FileLines(content)) :
        ParseLine(FileLines(content)[i]).k \in {"skip", "object"}

\* C24: the two readers leave the log as it is, and on a log whose entry
\* lines are all JSON objects get_issue_summary returns a summary in which
\* total_issues is the number of entry lines, each of by_status, by_severity,
\* by_repo and by_type sums to total_issues, and new_count is by_status[NEW]
\* and the length of what check_new_issues returns.
C24_SummaryCountsEntryLines ==
    [][ log_result'.op \in {"get_issue_summary", "check_new_issues"} =>
            /\ log_content' = log_content /\ log_exists' = log_exists
            /\ (log_result'.op = "get_issue_summary"
                    /\ EntryLinesAreObjects(log_content)) =>
                LET v == log_result'.value
                IN  /\ log_result'.exc = "none"
                    /\ v.total_issues = Len(Entries(log_content))
                    /\ SumOf(v.by_status) = v.total_issues
                    /\ SumOf(v.by_severity) = v.total_issues
                    /\ SumOf(v.by_repo) = v.total_issues
                    /\ SumOf(v.by_type) = v.total_issues
                    /\ v.new_count = GetOr(v.by_status, "NEW", 0)
                    /\ v.new_count
                         = Len(check_new_issues(log_exists, log_content).value) ]_vars

\* ================================================================== what validate_issue accepts

\* C25: validate_issue returns without raising exactly when the issue
\* violates none of the constraints: the 15 required fields with their types,
\* a canonical UUID4 issue_id, a timestamp ending in Z that parses, repo,
\* severity, type and status in their sets, the length bounds, attempts >= 0,
\* UUID4 strings in blocked_by and depends_on, and no entry of the log with
\* the same issue_id. Extra fields and an empty agent or fix_summary violate
\* nothing.
C25_AcceptsExactlyTheValidIssues ==
    Validated =>
        (log_result.exc = "none" <=> Violated(log_result.issue) = {})

\* ================================================================== batch upload with checkpoints

\* File names, in the order sorted() gives them.
Docs == 1..MaxDocs

RECURSIVE sorted(_)
sorted(S) == IF S = {} THEN <<>> ELSE <<Min(S)>> \o sorted(S \ {Min(S)})

Range(q) == {q[i] : i \in 1..Len(q)}

\* CheckpointManager.load(): the default when there is no file, what
\* json.load gives otherwise; "corrupt" stands for a file json.load rejects.
load(file) ==
    IF file.state = "missing"
    THEN [state |-> "ok", processed_files |-> <<>>, successful |-> 0,
          failed |-> 0, last_batch |-> 0]
    ELSE file

\* [f for f in all_files if f.name not in processed_files]
files_to_process_ignoring_checkpoint(all_files, processed_files) == all_files

files_to_process(all_files, processed_files) ==
    SelectSeq(all_files, LAMBDA f : f \notin processed_files)

total_batches_rounded_down(n, size) == n \div size

\* (len(files_to_process) + self.batch_size - 1) // self.batch_size
total_batches(n, size) == (n + size - 1) \div size

\* files_to_process[start_idx:end_idx] of batch batch_num
batch_files(files, batch_num, size) ==
    LET start_idx == (batch_num - 1) * size
        end_idx == Min({start_idx + size, Len(files)})
    IN  SubSeq(files, start_idx + 1, end_idx)

Running == run.pc = "batch"

\* run() up to its loop: the files, the checkpoint, the filter, the early
\* return when nothing is left, the number of batches.
StartRun ==
    /\ ~Running
    /\ history.runs < MaxRuns
    /\ LET all_files == sorted(documents)
           cp == load(checkpoint)
           todo == files_to_process(all_files, Range(cp.processed_files))
           locals == [pc |-> "batch", all_files |-> all_files,
                      found |-> Range(cp.processed_files),
                      files_to_process |-> todo,
                      total_batches |-> total_batches(Len(todo), batch_size),
                      batch_num |-> 1, batch_results |-> <<>>,
                      log |-> <<>>, sizes |-> <<>>]
       IN  run' = IF cp.state = "corrupt"
                  THEN [locals EXCEPT !.pc = "JSONDecodeError",
                                      !.found = {},
                                      !.files_to_process = <<>>,
                                      !.total_batches = 0]
                  ELSE IF todo = <<>> \/ locals.total_batches < 1
                       THEN [locals EXCEPT !.pc = "done"]
                  ELSE locals
    /\ history' = [history EXCEPT !.runs = @ + 1]
    /\ UNCHANGED <<documents, batch_size, checkpoint, dbVars, logVars>>

CurrentBatch == batch_files(run.files_to_process, run.batch_num, batch_size)

\* process_batch, one turn of its loop: process_document returns a result
\* with success True or False, or raises and the except clause builds the
\* result with success False.
ProcessDocument ==
    /\ Running
    /\ Len(run.batch_results) < Len(CurrentBatch)
    /\ LET file == CurrentBatch[Len(run.batch_results) + 1]
       IN  \E success \in BOOLEAN :
            /\ run' = [run EXCEPT
                        !.batch_results =
                            Append(@, [filename |-> file, success |-> success]),
                        !.log = Append(@, file)]
            /\ history' = [history EXCEPT
                            !.processed[file] = @ + 1,
                            !.failed = IF success THEN @ ELSE @ \cup {file}]
    /\ UNCHANGED <<documents, batch_size, checkpoint, dbVars, logVars>>

Count(results, success) ==
    Cardinality({i \in 1..Len(results) : results[i].success = success})

\* process_batch after its loop: load, extend, count, save; then the next
\* batch, or the end of run().
SaveCheckpoint ==
    /\ Running
    /\ Len(run.batch_results) = Len(CurrentBatch)
    /\ LET cp == load(checkpoint)
           names == [i \in 1..Len(run.batch_results) |->
                        run.batch_results[i].filename]
       IN  /\ checkpoint' =
                [state |-> "ok",
                 processed_files |-> cp.processed_files \o names,
                 successful |-> cp.successful + Count(run.batch_results, TRUE),
                 failed |-> cp.failed + Count(run.batch_results, FALSE),
                 last_batch |-> run.batch_num]
           /\ history' = [history EXCEPT !.saved = @ \cup Range(names)]
    /\ run' = [run EXCEPT
                !.sizes = Append(@, Len(run.batch_results)),
                !.batch_results = <<>>,
                !.batch_num = @ + 1,
                !.pc = IF run.batch_num < run.total_batches THEN "batch"
                       ELSE "done"]
    /\ UNCHANGED <<documents, batch_size, dbVars, logVars>>

\* The process is stopped (Ctrl-C, kill, power) while a batch is in flight:
\* what the batch did is in the database but not in the checkpoint.
Interrupt ==
    /\ Running
    /\ run' = [run EXCEPT !.pc = "stopped"]
    /\ history' = [history EXCEPT !.in_flight = @ \cup Range(CurrentBatch)]
    /\ UNCHANGED <<documents, batch_size, checkpoint, dbVars, logVars>>

\* The process is stopped inside save(): open(file, "w") has emptied the file
\* and json.dump has not finished.
InterruptSave ==
    /\ Running
    /\ Len(run.batch_results) = Len(CurrentBatch)
    /\ run' = [run EXCEPT !.pc = "stopped"]
    /\ checkpoint' = [NoCheckpoint EXCEPT !.state = "corrupt"]
    /\ history' = [history EXCEPT !.in_flight = @ \cup Range(CurrentBatch)]
    /\ UNCHANGED <<documents, batch_size, dbVars, logVars>>

\* A file is put into documents_dir.
AddDocument ==
    /\ \E d \in Docs \ documents : documents' = documents \cup {d}
    /\ UNCHANGED <<batch_size, checkpoint, run, history, dbVars, logVars>>

\* Some documents, no checkpoint, no run yet.
InitBatch ==
    /\ DbIdle
    /\ LogIdle
    /\ documents \in SUBSET Docs
    /\ batch_size \in 1..MaxBatch
    /\ checkpoint = NoCheckpoint
    /\ run = NoRun
    /\ history = [processed |-> [d \in Docs |-> 0], failed |-> {},
                  in_flight |-> {}, saved |-> {}, runs |-> 0]

NextBatch ==
    \/ StartRun
    \/ ProcessDocument
    \/ SaveCheckpoint
    \/ Interrupt
    \/ InterruptSave
    \/ AddDocument

SpecBatch == InitBatch /\ [][NextBatch]_vars

RECURSIVE SumSeq(_)
SumSeq(q) == IF q = <<>> THEN 0 ELSE Head(q) + SumSeq(Tail(q))

\* The names in the checkpoint file.
CheckpointNames == Range(load(checkpoint).processed_files)

\* C26: while a run goes on, the checkpoint written after each batch holds
\* the names of all the documents of the batches done so far; and when run()
\* has returned, the documents it processed are the discovered documents
\* whose names the checkpoint did not hold, each once, in sorted order, in
\* ceil(n / batch_size) batches that are full but for the last, and the
\* checkpoint holds every discovered name, successful + failed being the
\* number of names.
C26_CompletedRunProcessedAllOnce ==
    /\ (run.pc \in {"batch", "done"} /\ run.sizes # <<>>) =>
            /\ checkpoint.state = "ok"
            /\ checkpoint.last_batch = Len(run.sizes)
            /\ Range(SubSeq(run.log, 1, SumSeq(run.sizes))) \subseteq CheckpointNames
    /\ run.pc = "done" =>
        LET todo == SelectSeq(run.all_files, LAMBDA f : f \notin run.found)
            n == Len(todo)
            cp == load(checkpoint)
        IN  /\ run.log = todo
            /\ Len(run.sizes)
                 = (n \div batch_size) + (IF n % batch_size = 0 THEN 0 ELSE 1)
            /\ SumSeq(run.sizes) = n
            /\ \A i \in 1..Len(run.sizes) :
                    /\ run.sizes[i] <= batch_size
                    /\ i < Len(run.sizes) => run.sizes[i] = batch_size
            /\ Range(run.all_files) \subseteq Range(cp.processed_files)
            /\ cp.successful + cp.failed = Len(cp.processed_files)

\* C26 witness: a resumed run has returned after two batches, skipping what
\* the checkpoint held.
C26_Witness ==
    /\ run.pc = "done"
    /\ Len(run.sizes) = 2
    /\ run.found # {}
    /\ history.runs >= 2

\* C27: a document that is processed again belonged to a batch that was in
\* flight when an earlier run stopped, and no document of a batch whose
\* checkpoint was saved is ever processed again.
C27_OnlyInFlightBatchIsRepeated ==
    [][ \A d \in Docs :
            history'.processed[d] > history.processed[d] =>
                /\ history.processed[d] > 0 => d \in history.in_flight
                /\ d \notin history.saved ]_vars

\* C27 witness: a run has returned in which a document of an interrupted
\* batch was processed for the second time, after another batch was saved.
C27_Witness ==
    /\ run.pc = "done"
    /\ \E d \in Docs : history.processed[d] = 2 /\ d \in history.in_flight
    /\ \E d \in Docs : history.processed[d] = 1 /\ d \in run.found

\* C28 as stated: a document whose processing failed is never processed
\* again.
C28_FailedIsNeverRetried ==
    [][ \A d \in Docs :
            history'.processed[d] > history.processed[d] =>
                d \notin history.failed ]_vars

\* C28, amended: when the checkpoint of a batch is saved, the documents that
\* failed in it are put in processed_files with those that succeeded and
\* counted in failed, and a document that failed in a batch whose checkpoint
\* was saved is never processed again.
C28_FailedAndSavedIsNeverRetried ==
    [][ /\ \A d \in Docs :
            history'.processed[d] > history.processed[d] =>
                d \notin history.failed \cap history.saved
        /\ (checkpoint' # checkpoint /\ checkpoint'.state = "ok") =>
            /\ \A i \in 1..Len(run.batch_results) :
                    run.batch_results[i].filename
                        \in Range(checkpoint'.processed_files)
            /\ checkpoint'.failed
                 = load(checkpoint).failed + Count(run.batch_results, FALSE)
            /\ checkpoint'.successful
                 = load(checkpoint).successful + Count(run.batch_results, TRUE) ]_vars

\* C28 witness: a later run has returned that processed other documents and
\* skipped a document that had failed once and was in the checkpoint.
C28_Witness ==
    /\ run.pc = "done"
    /\ run.log # <<>>
    /\ \E d \in history.failed :
            d \in run.found /\ history.processed[d] = 1

\* ================================================================== immutability along the migration chain

\* C29: from 8c414c598b42 up to head the three tables carry their triggers
\* and an UPDATE or DELETE of an existing row raises and changes nothing;
\* before 8c414c598b42, on the way up or after its downgrade, no table
\* carries a trigger and an UPDATE or DELETE of an existing row of an
\* existing table is not held up by immutability: the DELETE removes the row,
\* the UPDATE replaces it unless the unique index rejects the new value.
C29_ImmutableExactlyWhileTriggersInstalled ==
    [][ /\ triggers' = IF revision' >= RevIdx("8c414c598b42")
                       THEN AuditTables ELSE {}
        /\ (db_result'.op \in {"update", "delete"} /\ db_result'.matched
                /\ db_result'.table \in AuditTables) =>
            LET t == db_result'.table
            IN  IF revision >= RevIdx("8c414c598b42")
                THEN db_result'.outcome = "immutable" /\ rows' = rows
                ELSE /\ db_result'.outcome
                            \in {"ok", "unique_violation:ix_change_events_aggregate"}
                     /\ (db_result'.op = "delete") =>
                            /\ db_result'.outcome = "ok"
                            /\ Cardinality(rows'[t]) = Cardinality(rows[t]) - 1
                            /\ rows'[t] \subseteq rows[t]
                     /\ (db_result'.op = "update" /\ db_result'.outcome = "ok") =>
                            /\ Cardinality(rows'[t]) = Cardinality(rows[t])
                            /\ Cardinality(rows[t] \ rows'[t]) <= 1
                     /\ db_result'.outcome # "ok" =>
                            /\ rows' = rows
                            /\ db_result'.op = "update"
                            /\ t = "change_events"
                            /\ revision >= RevIdx("20251111_200060") ]_vars

\* C29 witness: below 8c414c598b42 a DELETE has just removed a keystroke_logs
\* row while rows of the other two tables are stored.
C29_Witness ==
    /\ revision = RevIdx("20251111_200070")
    /\ db_result.op = "delete"
    /\ db_result.table = "keystroke_logs"
    /\ db_result.matched
    /\ db_result.outcome = "ok"
    /\ rows["keystroke_logs"] = {}
    /\ rows["audit_logs"] # {}

\* ================================================================== the header race

\* The entry of call p is a line of the log.
InLog(p) ==
    \E i \in 1..Len(log_content) : log_content[i] = json_dump(calls[p].issue)

\* C30: the header write of a call that found the log missing empties the
\* file, whatever another call has written since the check: after it the log
\* holds the header and no entry. So when both calls found the log missing
\* and have returned, the log holds the header and the entry of the call that
\* appended last, and that of the other call only if no header write came
\* after it.
C30_LateHeaderWriteTruncates ==
    [][ /\ \A p \in Callers :
            (calls[p].pc = "header" /\ calls'[p].pc = "append") =>
                /\ ~calls[p].found_log
                /\ log_content' = ISSUES_LOG_HEADER
                /\ Entries(log_content') = <<>>
        /\ (\A p \in Callers : calls'[p].pc = "returned" /\ ~calls'[p].found_log) =>
                /\ IsPrefix(ISSUES_LOG_HEADER, log_content')
                /\ Len(Entries(log_content')) \in {1, 2} ]_vars

\* C30 witness: both calls found the log missing and returned without error,
\* their issue_ids differ, and the entry of one of them is not in the log.
C30_Witness ==
    /\ \A p \in Callers : /\ calls[p].pc = "returned"
                          /\ calls[p].exc = "none"
                          /\ ~calls[p].found_log
    /\ calls[1].issue["issue_id"] # calls[2].issue["issue_id"]
    /\ \E p \in Callers : ~InLog(p)
    /\ Len(Entries(log_content)) = 1

====
